---- MODULE Spec2Model ----
(***************************************************************************)
(* Fact canonicalization of the Oak Island hub: the CSV normalizers of     *)
(* pipeline/normalizers, the deduplication and statistics of               *)
(* semantic_sqlite_pipeline, and the ingestion commands etl/run_all.py,    *)
(* etl_ingest_semantic.py, pipeline/etl_pipeline.py and                    *)
(* validate_canonical.py, and the nightly scheduler                        *)
(* pipeline/scheduler/run_nightly_pipeline.py.                             *)
(*                                                                         *)
(* Python values are tagged records: None, Str(s), Num(n) (a JSON number), *)
(* Float(t) (a confidence, in tenths).  A ';'-joined string such as        *)
(* source_refs is Parts(s), s the sequence of its parts; "" is Parts(<<>>). *)
(***************************************************************************)
EXTENDS Integers, Sequences, FiniteSets, TLC

VARIABLES script, pc, existing, csvFile, supplier,
          people, person_mentions, people_jsonl, name_to_canonical, idx, passes, pass_start,
          theories, theory_mentions, theories_jsonl,
          on_disk, data, db, maps, returned, summary, exit_status, records_read

vars == <<script, pc, existing, csvFile, supplier,
          people, person_mentions, people_jsonl, name_to_canonical, idx, passes, pass_start,
          theories, theory_mentions, theories_jsonl,
          on_disk, data, db, maps, returned, summary, exit_status, records_read>>

normData == <<existing, csvFile, supplier>>

theoryData == <<theories, theory_mentions, theories_jsonl>>

dedupeData == <<people, person_mentions, people_jsonl, name_to_canonical, idx, passes, pass_start,
                theoryData>>

etlData == <<on_disk, data, db, maps, returned, summary, exit_status, records_read>>

\* ---------------------------------------------------------------- bounds
MaxMentions == 3
MaxPasses == 2

\* ------------------------------------------------------- Python values
None == [none |-> TRUE]
Str(s) == [str |-> s]
Num(n) == [num |-> n]
Float(t) == [float |-> t]
Parts(s) == [parts |-> s]

EmptyDict == <<>>

Get(d, k, default) == IF k \in DOMAIN d THEN d[k] ELSE default

Falsy(v) == v = None \/ v = Str("") \/ v = Num(0) \/ v = Float(0) \/ v = Parts(<<>>)

Or(v, d) == IF Falsy(v) THEN d ELSE v

FloatStr(t) == IF t = 10 THEN "1.0" ELSE "0." \o ToString(t)

PyStr(v) ==
  IF "str" \in DOMAIN v \/ "parts" \in DOMAIN v THEN v
  ELSE IF "num" \in DOMAIN v THEN Str(ToString(v.num))
  ELSE IF "float" \in DOMAIN v THEN Str(FloatStr(v.float))
  ELSE Str("None")

PyFloat(v) ==
  IF "float" \in DOMAIN v THEN v.float
  ELSE IF "num" \in DOMAIN v THEN 10 * v.num
  ELSE CHOOSE t \in 0..10 : FloatStr(t) = v.str

CsvCell(v) == IF v = None THEN Str("") ELSE PyStr(v)

\* the ingestion has not run: no files, no database, no process
EtlIdle ==
  /\ on_disk = {}
  /\ data = <<>>
  /\ db = <<>>
  /\ maps = <<>>
  /\ returned = <<>>
  /\ summary = <<>>
  /\ exit_status = 0
  /\ records_read = 0

\* the deduplication has not run: its database and inputs are empty
DedupeIdle ==
  /\ people = <<>>
  /\ person_mentions = <<>>
  /\ people_jsonl = <<>>
  /\ name_to_canonical = <<>>
  /\ idx = 1
  /\ passes = 0
  /\ pass_start = 0
  /\ theories = <<>>
  /\ theory_mentions = <<>>
  /\ theories_jsonl = <<>>
  /\ EtlIdle

\* ------------------------------------------- normalize_artifacts.py
ARTIFACT_FIELDS ==
  {"artifact_id", "location_id", "name", "category", "description", "depth_m",
   "depth_reference", "found_date_iso", "episode_season", "episode_number",
   "episode_title", "era_primary", "confidence_level", "source_refs"}

ArtifactIds == <<"art_coin", "art_cross">>

Refs == <<"s01e01.srt:3", "s01e02.srt:7">>

JoinedFields == {"source_refs", "related_seasons"}

BlankRow(fields) == [k \in fields |-> IF k \in JoinedFields THEN Parts(<<>>) ELSE Str("")]

Put(d, k, v) == [x \in DOMAIN d \cup {k} |-> IF x = k THEN v ELSE d[x]]

SeqContains(s, x) == \E i \in 1..Len(s) : s[i] = x

\* a provenance reference appended without looking for it among the parts
merge_refs_append(row, ref) ==
  IF Falsy(ref) THEN row.source_refs
  ELSE LET existing_refs == Or(Get(row, "source_refs", Parts(<<>>)), Parts(<<>>))
       IN IF ~Falsy(existing_refs)
          THEN Parts(Append(existing_refs.parts, ref.str))
          ELSE Parts(<<ref.str>>)

merge_refs(row, ref) ==
  IF Falsy(ref) THEN row.source_refs
  ELSE LET existing_refs == Or(Get(row, "source_refs", Parts(<<>>)), Parts(<<>>))
       IN IF ~Falsy(existing_refs)
          THEN IF ~SeqContains(existing_refs.parts, ref.str)
               THEN Parts(Append(existing_refs.parts, ref.str))
               ELSE row.source_refs
          ELSE Parts(<<ref.str>>)

merge_confidence(row, f) ==
  LET new_conf == PyFloat(Or(Get(f, "confidence", Num(0)), Num(0)))
      old_conf == PyFloat(Or(Get(row, "confidence_level", Num(0)), Num(0)))
  IN IF new_conf > old_conf THEN Float(new_conf) ELSE row.confidence_level

merge_artifacts(ex, f) ==
  LET aid == f.artifact_id
      attrs == Get(f, "attributes", EmptyDict)
      ep == Get(f, "episode", EmptyDict)
      src == Get(f, "source", EmptyDict)
      row == Get(ex, aid, BlankRow(ARTIFACT_FIELDS))
      r1 == [row EXCEPT
               !.artifact_id = Str(aid),
               !.name = Get(attrs, "name", Get(row, "name", Str(""))),
               !.category = Get(attrs, "category", Get(row, "category", Str(""))),
               !.description = Get(attrs, "description", Get(row, "description", Str(""))),
               !.depth_m = PyStr(Or(Get(attrs, "depth_m", Get(row, "depth_m", Str(""))), Str(""))),
               !.depth_reference = Or(Get(attrs, "depth_reference", Get(row, "depth_reference", Str(""))), Str("")),
               !.location_id = Or(Get(attrs, "location_hint", Get(row, "location_id", Str(""))), Str("")),
               !.episode_season = Or(Get(ep, "season", Get(row, "episode_season", Str(""))), Str("")),
               !.episode_number = Or(Get(ep, "episode", Get(row, "episode_number", Str(""))), Str("")),
               !.episode_title = Or(Get(ep, "title", Get(row, "episode_title", Str(""))), Str("")),
               !.found_date_iso = Or(Get(attrs, "found_date_iso", Get(row, "found_date_iso", Str(""))), Str("")),
               !.era_primary = Or(Get(attrs, "era_primary", Get(row, "era_primary", Str(""))), Str(""))]
      r2 == [r1 EXCEPT !.confidence_level = merge_confidence(r1, f)]
      r3 == [r2 EXCEPT !.source_refs = merge_refs(r2, Get(src, "ref", None))]
  IN Put(ex, aid, r3)

\* Lines of artifacts.jsonl, as extract_artifacts_from_subtitles.py writes them.
OptKey(k, present, v) == IF present THEN k :> v ELSE EmptyDict

RefValues == {None} \cup {Str(Refs[i]) : i \in 1..Len(Refs)}

ArtifactFacts ==
  { [fact_type |-> "artifact", artifact_id |-> ArtifactIds[1],
     attributes |-> OptKey("name", n # None, n),
     episode |-> EmptyDict,
     source |-> OptKey("ref", r # None, r),
     confidence |-> c] :
      n \in {None, Str("coin"), Str("nail")}, r \in RefValues, c \in {Float(5), Float(9)} }
  \cup
  { [fact_type |-> "artifact", artifact_id |-> ArtifactIds[1],
     attributes |-> [depth_m |-> d, location_hint |-> Str("money_pit")],
     episode |-> [season |-> Num(1)],
     source |-> EmptyDict,
     confidence |-> None] : d \in {None, Num(10)} }
  \cup
  { [fact_type |-> "artifact", artifact_id |-> ArtifactIds[2],
     attributes |-> [name |-> Str("cross"), depth_m |-> Num(10), location_hint |-> None],
     episode |-> [season |-> Num(1), episode |-> Num(2)],
     source |-> [ref |-> Str(Refs[1])],
     confidence |-> Float(9)] }

load_existing_artifacts(csv) ==
  [id \in {csv[i].artifact_id.str : i \in 1..Len(csv)} |->
     LET i == CHOOSE j \in 1..Len(csv) :
                /\ csv[j].artifact_id.str = id
                /\ \A k \in (j+1)..Len(csv) : csv[k].artifact_id.str # id
     IN csv[i]]

SortedKeys(order, d) == SelectSeq(order, LAMBDA k : k \in DOMAIN d)

CsvRow(row) == [k \in DOMAIN row |-> CsvCell(row[k])]

write_csv(order, ex) ==
  LET keys == SortedKeys(order, ex)
  IN [i \in 1..Len(keys) |-> CsvRow(ex[keys[i]])]

\* ------------------------------------------------------------ actions
\* main() of normalize_artifacts.py: load the canonical CSV, ...
LoadArtifacts ==
  /\ script = "normalize_artifacts"
  /\ pc = "start"
  /\ existing' = load_existing_artifacts(csvFile)
  /\ pc' = "merge"
  /\ UNCHANGED <<script, csvFile, supplier, dedupeData, etlData>>

\* ... merge the next line of artifacts.jsonl, ...
MergeArtifact ==
  /\ script = "normalize_artifacts"
  /\ pc = "merge"
  /\ \E f \in ArtifactFacts :
       /\ existing' = merge_artifacts(existing, f)
       /\ supplier' = IF "name" \in DOMAIN f.attributes
                       THEN Put(supplier, f.artifact_id, PyFloat(f.confidence))
                       ELSE supplier
  /\ UNCHANGED <<script, pc, csvFile, dedupeData, etlData>>

\* ... unless the next line is not JSON: json.loads raises, the process ends
\* with a traceback and the CSV stays as it was; existing keeps what the process
\* had merged when it died.
ArtifactLineMalformed ==
  /\ script = "normalize_artifacts"
  /\ pc = "merge"
  /\ pc' = "crashed"
  /\ UNCHANGED <<script, existing, csvFile, supplier, dedupeData, etlData>>

\* ... and write the rows back, sorted by artifact_id; the process then ends.
WriteArtifacts ==
  /\ script = "normalize_artifacts"
  /\ pc = "merge"
  /\ csvFile' = write_csv(ArtifactIds, existing)
  /\ existing' = EmptyDict
  /\ pc' = "start"
  /\ UNCHANGED <<script, supplier, dedupeData, etlData>>

InitArtifacts ==
  /\ script = "normalize_artifacts"
  /\ pc = "start"
  /\ existing = EmptyDict
  /\ csvFile = <<>>
  /\ supplier = EmptyDict
  /\ DedupeIdle

\* ------------------------------ normalize_locations_from_subtitles.py
SourceFiles == <<"s01e01.srt", "s01e02.srt">>

LocationIds == <<"money_pit", "smiths_cove">>

MentionKey(loc) == [season |-> 1, episode |-> 1, timestamp |-> "00:01:05", location_id |-> loc]

MentionKeys == [i \in 1..Len(LocationIds) |-> MentionKey(LocationIds[i])]

ParseInt(v) == IF "num" \in DOMAIN v THEN v.num ELSE CHOOSE n \in 0..20 : ToString(n) = v.str

SortRefs(set) == SelectSeq(SourceFiles, LAMBDA r : r \in set)

SeqToSet(s) == {s[i] : i \in 1..Len(s)}

merge_location_mention(ex, f) ==
  LET season == ParseInt(f.season)
      episode == ParseInt(f.episode)
      timestamp == f.timestamp
      loc_id == f.location_id
      loc_name == f.location_name
      text == Get(f, "text", Str(""))
      confidence == PyFloat(Get(f, "confidence", Float(10)))
      source_file == Get(f, "source_file", Str(""))
      key == [season |-> season, episode |-> episode, timestamp |-> timestamp.str,
              location_id |-> loc_id.str]
  IN IF key \notin DOMAIN ex
     THEN Put(ex, key,
              [season |-> Num(season), episode |-> Num(episode), timestamp |-> timestamp,
               location_id |-> loc_id, location_name |-> loc_name, text |-> text,
               confidence |-> Float(confidence),
               source_refs |-> IF Falsy(source_file) THEN Parts(<<>>)
                               ELSE Parts(<<source_file.str>>)])
     ELSE LET row == ex[key]
              r1 == IF confidence > PyFloat(row.confidence)
                    THEN [row EXCEPT !.confidence = Float(confidence),
                                     !.text = text,
                                     !.location_name = loc_name]
                    ELSE row
              refs == IF ~Falsy(r1.source_refs) THEN SeqToSet(r1.source_refs.parts) ELSE {}
              refs2 == IF ~Falsy(source_file) THEN refs \cup {source_file.str} ELSE refs
          IN Put(ex, key, [r1 EXCEPT !.source_refs = Parts(SortRefs(refs2))])

\* Lines of locations_from_subtitles.jsonl (extract_locations_from_subtitles.py).
LocationMentionFacts ==
  { [season |-> Num(1), episode |-> Num(1), timestamp |-> Str("00:01:05"),
     location_id |-> Str(LocationIds[1]), location_name |-> Str(nt[1]), text |-> Str(nt[2])]
    @@ OptKey("confidence", c # None, c) @@ OptKey("source_file", sf # Str("absent"), sf) :
      nt \in {<<"Money Pit", "at the money pit">>, <<"The Money Pit", "down the pit">>},
      c \in {None, Float(5), Float(9)},
      sf \in {Str("absent"), None} \cup {Str(SourceFiles[i]) : i \in 1..Len(SourceFiles)} }
  \cup
  { [season |-> Num(1), episode |-> Num(1), timestamp |-> Str("00:01:05"),
     location_id |-> Str(LocationIds[2]), location_name |-> Str("Smiths Cove"),
     text |-> Str("at the cove"), confidence |-> Float(9), source_file |-> Str(SourceFiles[2])] }

load_existing_mentions(csv) ==
  LET KeyOf(r) == [season |-> ParseInt(r.season), episode |-> ParseInt(r.episode),
                   timestamp |-> r.timestamp.str, location_id |-> r.location_id.str]
  IN [key \in {KeyOf(csv[i]) : i \in 1..Len(csv)} |->
        LET i == CHOOSE j \in 1..Len(csv) :
                   /\ KeyOf(csv[j]) = key
                   /\ \A k \in (j+1)..Len(csv) : KeyOf(csv[k]) # key
        IN csv[i]]

LoadMentions ==
  /\ script = "normalize_locations_from_subtitles"
  /\ pc = "start"
  /\ existing' = load_existing_mentions(csvFile)
  /\ pc' = "merge"
  /\ UNCHANGED <<script, csvFile, supplier, dedupeData, etlData>>

MergeMention ==
  /\ script = "normalize_locations_from_subtitles"
  /\ pc = "merge"
  /\ \E f \in LocationMentionFacts :
       LET key == MentionKey(f.location_id.str)
           conf == PyFloat(Get(f, "confidence", Float(10)))
       IN /\ existing' = merge_location_mention(existing, f)
          /\ supplier' = IF key \notin DOMAIN existing \/ conf > PyFloat(existing[key].confidence)
                          THEN Put(supplier, key, conf)
                          ELSE supplier
  /\ UNCHANGED <<script, pc, csvFile, dedupeData, etlData>>

WriteMentions ==
  /\ script = "normalize_locations_from_subtitles"
  /\ pc = "merge"
  /\ csvFile' = write_csv(MentionKeys, existing)
  /\ existing' = EmptyDict
  /\ pc' = "start"
  /\ UNCHANGED <<script, supplier, dedupeData, etlData>>

InitMentions ==
  /\ script = "normalize_locations_from_subtitles"
  /\ pc = "start"
  /\ existing = EmptyDict
  /\ csvFile = <<>>
  /\ supplier = EmptyDict
  /\ DedupeIdle

\* ------------------------------------------------- normalize_locations.py
LOCATION_FIELDS ==
  {"location_id", "name", "type", "lat", "lng", "elevation_m", "first_documented_year",
   "era_primary", "related_seasons", "source_priority", "source_refs"}

List(s) == [list |-> s]

normalize_related_seasons(value) ==
  IF "list" \in DOMAIN value
  THEN Parts([i \in 1..Len(value.list) |-> PyStr(value.list[i]).str])
  ELSE IF value = None THEN Parts(<<>>)
  ELSE PyStr(value)

merge_location(ex, f) ==
  LET loc_id == f.location_id
      row == Get(ex, loc_id, BlankRow(LOCATION_FIELDS))
      r1 == [row EXCEPT
               !.location_id = Str(loc_id),
               !.name = Get(f, "name", row.name),
               !.type = Get(f, "type", row.type),
               !.lat = PyStr(Or(Get(f, "lat", Get(row, "lat", Str(""))), Str(""))),
               !.lng = PyStr(Or(Get(f, "lng", Get(row, "lng", Str(""))), Str(""))),
               !.elevation_m = PyStr(Or(Get(f, "elevation_m", Get(row, "elevation_m", Str(""))), Str(""))),
               !.first_documented_year =
                  PyStr(Or(Get(f, "first_documented_year", Get(row, "first_documented_year", Str(""))), Str(""))),
               !.era_primary = Or(Get(f, "era_primary", Get(row, "era_primary", Str(""))), Str("")),
               !.related_seasons =
                  normalize_related_seasons(Get(f, "related_seasons", Get(row, "related_seasons", Parts(<<>>)))),
               !.source_priority = Or(Get(f, "source_priority", Get(row, "source_priority", Str(""))), Str("")),
               !.source_refs = Or(Get(f, "source_refs", Get(row, "source_refs", Parts(<<>>))), Parts(<<>>))]
  IN Put(ex, loc_id, r1)

\* Lines of locations.jsonl.
LocationFacts ==
  { [fact_type |-> "location", location_id |-> LocationIds[1]]
    @@ OptKey("name", n # None, n) @@ OptKey("related_seasons", rs # Str("absent"), rs)
    @@ OptKey("source_refs", sr # Str("absent"), sr) :
      n \in {None, Str("Money Pit")},
      rs \in {Str("absent"), None, List(<<Num(1)>>), List(<<Num(2)>>), List(<<Num(1), Num(2)>>)},
      sr \in {Str("absent"), None, Parts(<<"curated">>), Parts(<<"manual">>)} }
  \cup
  { [fact_type |-> "location", location_id |-> LocationIds[2], name |-> Str("Smiths Cove"),
     type |-> Str("shore"), lat |-> Num(44), related_seasons |-> List(<<Num(1)>>),
     source_priority |-> Str("ShowFrame"), source_refs |-> Parts(<<"curated">>)] }

load_existing_locations(csv) ==
  [id \in {csv[i].location_id.str : i \in 1..Len(csv)} |->
     LET i == CHOOSE j \in 1..Len(csv) :
                /\ csv[j].location_id.str = id
                /\ \A k \in (j+1)..Len(csv) : csv[k].location_id.str # id
     IN csv[i]]

LoadLocations ==
  /\ script = "normalize_locations"
  /\ pc = "start"
  /\ existing' = load_existing_locations(csvFile)
  /\ pc' = "merge"
  /\ UNCHANGED <<script, csvFile, supplier, dedupeData, etlData>>

MergeLocation ==
  /\ script = "normalize_locations"
  /\ pc = "merge"
  /\ \E f \in LocationFacts : existing' = merge_location(existing, f)
  /\ UNCHANGED <<script, pc, csvFile, supplier, dedupeData, etlData>>

WriteLocations ==
  /\ script = "normalize_locations"
  /\ pc = "merge"
  /\ csvFile' = write_csv(LocationIds, existing)
  /\ existing' = EmptyDict
  /\ pc' = "start"
  /\ UNCHANGED <<script, supplier, dedupeData, etlData>>

InitLocations ==
  /\ script = "normalize_locations"
  /\ pc = "start"
  /\ existing = EmptyDict
  /\ csvFile = <<>>
  /\ supplier = EmptyDict
  /\ DedupeIdle

\* -------------------------------------------- etl_dedupe_semantic.py
\* A Python str that is inspected character by character is the sequence of
\* its characters.
UpperChars ==
  <<"A", "B", "C", "D", "E", "F", "G", "H", "I", "J", "K", "L", "M",
    "N", "O", "P", "Q", "R", "S", "T", "U", "V", "W", "X", "Y", "Z">>

LowerChars ==
  <<"a", "b", "c", "d", "e", "f", "g", "h", "i", "j", "k", "l", "m",
    "n", "o", "p", "q", "r", "s", "t", "u", "v", "w", "x", "y", "z">>

LowerChar(c) ==
  IF \E i \in 1..26 : UpperChars[i] = c
  THEN LowerChars[CHOOSE i \in 1..26 : UpperChars[i] = c] ELSE c

UpperChar(c) ==
  IF \E i \in 1..26 : LowerChars[i] = c
  THEN UpperChars[CHOOSE i \in 1..26 : LowerChars[i] = c] ELSE c

IsLetter(c) == \E i \in 1..26 : UpperChars[i] = c \/ LowerChars[i] = c

lower(s) == [i \in 1..Len(s) |-> LowerChar(s[i])]

replace(s, old, new) == [i \in 1..Len(s) |-> IF s[i] = old THEN new ELSE s[i]]

title(s) ==
  [i \in 1..Len(s) |->
     IF i = 1 \/ ~IsLetter(s[i - 1]) THEN UpperChar(s[i]) ELSE LowerChar(s[i])]

RECURSIVE lstrip(_)
lstrip(s) == IF s # <<>> /\ Head(s) = " " THEN lstrip(Tail(s)) ELSE s

RECURSIVE rstrip(_)
rstrip(s) == IF s # <<>> /\ s[Len(s)] = " " THEN rstrip(SubSeq(s, 1, Len(s) - 1)) ELSE s

strip(s) == rstrip(lstrip(s))

PERSON_MATCH_THRESHOLD == [num |-> 17, den |-> 20]

KNOWN_PEOPLE ==
  << <<<<"R", "i", "c", "k">>, <<"r", "i", "c", "k", "_", "l", "a", "g", "i", "n", "a">>>>,
     <<<<"R", "i", "c", "k", " ", "L", "a", "g", "i", "n", "a">>, <<"r", "i", "c", "k", "_", "l", "a", "g", "i", "n", "a">>>>,
     <<<<"M", "a", "r", "t", "y">>, <<"m", "a", "r", "t", "y", "_", "l", "a", "g", "i", "n", "a">>>>,
     <<<<"M", "a", "r", "t", "y", " ", "L", "a", "g", "i", "n", "a">>, <<"m", "a", "r", "t", "y", "_", "l", "a", "g", "i", "n", "a">>>>,
     <<<<"G", "a", "r", "y">>, <<"g", "a", "r", "y", "_", "d", "r", "a", "y", "t", "o", "n">>>>,
     <<<<"G", "a", "r", "y", " ", "D", "r", "a", "y", "t", "o", "n">>, <<"g", "a", "r", "y", "_", "d", "r", "a", "y", "t", "o", "n">>>>,
     <<<<"C", "r", "a", "i", "g">>, <<"c", "r", "a", "i", "g", "_", "t", "e", "s", "t", "e", "r">>>>,
     <<<<"J", "a", "c", "k">>, <<"j", "a", "c", "k", "_", "b", "e", "g", "l", "e", "y">>>>,
     <<<<"D", "a", "v", "e">>, <<"d", "a", "v", "e", "_", "b", "l", "o", "n", "d">>>>,
     <<<<"D", "a", "n">>, <<"d", "a", "n", "_", "b", "l", "a", "n", "k", "e", "n", "s", "h", "i", "p">>>>,
     <<<<"C", "r", "a", "i", "g", " ", "T", "e", "s", "t", "e", "r">>, <<"c", "r", "a", "i", "g", "_", "t", "e", "s", "t", "e", "r">>>>,
     <<<<"J", "a", "c", "k", " ", "B", "e", "g", "l", "e", "y">>, <<"j", "a", "c", "k", "_", "b", "e", "g", "l", "e", "y">>>>,
     <<<<"D", "a", "v", "e", " ", "B", "l", "o", "n", "d">>, <<"d", "a", "v", "e", "_", "b", "l", "o", "n", "d">>>>,
     <<<<"A", "l", "e", "x">>, <<"a", "l", "e", "x", "_", "l", "a", "g", "i", "n", "a">>>>,
     <<<<"L", "a", "i", "r", "d">>, <<"l", "a", "i", "r", "d", "_", "n", "i", "v", "e", "n">>>>,
     <<<<"C", "h", "a", "r", "l", "e", "s">>, <<"c", "h", "a", "r", "l", "e", "s", "_", "b", "a", "r", "k", "h", "o", "u", "s", "e">>>>,
     <<<<"D", "o", "u", "g">>, <<"d", "o", "u", "g", "_", "c", "r", "o", "w", "e", "l", "l">>>>,
     <<<<"M", "a", "t", "t", "y">>, <<"m", "a", "t", "t", "y", "_", "b", "l", "a", "k", "e">>>> >>

\* difflib.SequenceMatcher: length of the block a[i..] = b[j..] inside the windows
RECURSIVE BlockLen(_, _, _, _, _, _)
BlockLen(a, b, i, j, ahi, bhi) ==
  IF i <= ahi /\ j <= bhi /\ a[i] = b[j] THEN 1 + BlockLen(a, b, i + 1, j + 1, ahi, bhi) ELSE 0

\* find_longest_match: the longest block, earliest in a, then earliest in b
find_longest_match(a, b, alo, ahi, blo, bhi) ==
  LET cands == {<<i, j, BlockLen(a, b, i, j, ahi, bhi)>> : i \in alo..ahi, j \in blo..bhi}
  IN CHOOSE p \in cands :
       \A q \in cands :
          \/ p[3] > q[3]
          \/ p[3] = q[3] /\ p[1] < q[1]
          \/ p[3] = q[3] /\ p[1] = q[1] /\ p[2] <= q[2]

\* get_matching_blocks: total size of the blocks, found left and right of the longest
RECURSIVE matching_size(_, _, _, _, _, _)
matching_size(a, b, alo, ahi, blo, bhi) ==
  IF alo > ahi \/ blo > bhi THEN 0
  ELSE LET m == find_longest_match(a, b, alo, ahi, blo, bhi)
       IN IF m[3] = 0 THEN 0
          ELSE m[3] + matching_size(a, b, alo, m[1] - 1, blo, m[2] - 1)
                    + matching_size(a, b, m[1] + m[3], ahi, m[2] + m[3], bhi)

\* ratio() = 2.0 * matches / (len(a) + len(b)), kept as a fraction
string_similarity(s1, s2) ==
  LET a == lower(s1)
      b == lower(s2)
      length == Len(a) + Len(b)
  IN IF length = 0 THEN [num |-> 1, den |-> 1]
     ELSE [num |-> 2 * matching_size(a, b, 1, Len(a), 1, Len(b)), den |-> length]

Greater(x, y) == x.num * y.den > y.num * x.den

\* the loop of fuzzy_match_person over known_people.items(), from entry i on
RECURSIVE fuzzy_loop(_, _, _, _, _)
fuzzy_loop(name_clean, known_people, i, best_score, best_match) ==
  IF i > Len(known_people) THEN best_match
  ELSE LET score == string_similarity(name_clean, known_people[i][1])
       IN IF Greater(score, best_score)
          THEN fuzzy_loop(name_clean, known_people, i + 1, score, known_people[i][2])
          ELSE fuzzy_loop(name_clean, known_people, i + 1, best_score, best_match)

fuzzy_match_person(name, known_people) ==
  LET name_clean == strip(name)
  IN IF \E i \in 1..Len(known_people) : known_people[i][1] = name_clean
     THEN known_people[CHOOSE i \in 1..Len(known_people) :
                          /\ known_people[i][1] = name_clean
                          /\ \A j \in (i + 1)..Len(known_people) :
                                known_people[j][1] # name_clean][2]
     ELSE LET best_match == fuzzy_loop(name_clean, known_people, 1, PERSON_MATCH_THRESHOLD, <<>>)
          IN IF best_match # <<>> THEN best_match
             ELSE replace(lower(name_clean), " ", "_")

\* person names found in people.jsonl
PersonNames ==
  { <<"R", "i", "c", "k">>,
    <<"R", "i", "c", "k", " ", "L", "a", "g", "i", "n", "a">>,
    <<" ", "R", "i", "c", "k", " ">>,
    <<"M", "a", "t", "t", "y">>,
    <<"M", "a", "t", "y">>,
    <<"B", "i", "l", "l", "y">>,
    <<"B", "i", "l", "y">>,
    <<>>,
    <<" ">> }

Cardinal(s) == Cardinality(s)

StrippedNames == {strip(n) : n \in PersonNames}

\* the resolver called with a mapping that holds no known name
Resolved_unseeded == [n \in StrippedNames |-> fuzzy_match_person(n, <<>>)]

\* fuzzy_match_person(original_name, KNOWN_PEOPLE) for every name of people.jsonl
Resolved == [n \in StrippedNames |-> fuzzy_match_person(n, KNOWN_PEOPLE)]

\* Lines of people.jsonl (extract_people.py); season may be null.  Of the two
\* names that are empty after strip() the file has the empty one.
PeopleFacts ==
  { [person |-> <<"R", "i", "c", "k">>, season |-> sn, episode |-> Num(1), confidence |-> Float(10)] :
      sn \in {Num(1), Num(2), None} }
  \cup
  { [person |-> n, season |-> Num(1), episode |-> Num(3), confidence |-> Float(10)] :
      n \in PersonNames \ {<<"R", "i", "c", "k">>, <<" ">>} }

RECURSIVE SeqsUpTo(_, _)
SeqsUpTo(S, n) ==
  IF n = 0 THEN {<<>>}
  ELSE LET shorter == SeqsUpTo(S, n - 1)
       IN shorter \cup {Append(q, x) : q \in shorter, x \in S}

\* the keys of the person_mentions dict, in insertion order
RECURSIVE unique_names(_, _)
unique_names(jsonl, seen) ==
  IF jsonl = <<>> THEN <<>>
  ELSE LET name == strip(Head(jsonl).person)
       IN IF name # <<>> /\ name \notin seen
          THEN <<name>> \o unique_names(Tail(jsonl), seen \cup {name})
          ELSE unique_names(Tail(jsonl), seen)

mentions_of(jsonl, name) == Cardinal({i \in 1..Len(jsonl) : strip(jsonl[i].person) = name})

NewPerson(canonical_id, mention_count) ==
  [name |-> title(replace(canonical_id, "_", " ")), mention_count |-> mention_count,
   first_appearance_season |-> None, last_appearance_season |-> None]

\* UPDATE people SET name, mention_count WHERE id: no row is created
upsert_people_update_only(table, ids, counts) ==
  [c \in DOMAIN table |->
     IF c \in ids THEN NewPerson(c, counts[c]) ELSE table[c]]

\* lines 157-168: INSERT OR REPLACE INTO people (id, name, mention_count) for
\* every canonical id of the pass; the columns left out take their defaults
upsert_people(table, ids, counts) ==
  [c \in DOMAIN table \cup ids |->
     IF c \in ids THEN NewPerson(c, counts[c]) ELSE table[c]]

\* INSERT OR IGNORE on the whole row
insert_person_mention_ignore(table, row) ==
  IF SeqContains(table, row) THEN table ELSE Append(table, row)

insert_person_mention(table, row) == Append(table, row)

PyInt(v) == v.num

Raises(mention) == "num" \notin DOMAIN mention.season \/ "num" \notin DOMAIN mention.episode

\* dedupe_people, lines 139-170: group the names, resolve them, upsert the people
DedupePeopleUpsert ==
  /\ script = "etl_dedupe_semantic"
  /\ pc = "start"
  /\ passes < MaxPasses
  /\ LET names == unique_names(people_jsonl, {})
         n2c == [n \in SeqToSet(names) |-> Resolved[n]]
         ids == {n2c[n] : n \in SeqToSet(names)}
         canonical_to_mentions ==
           [c \in ids |->
              Cardinal({i \in 1..Len(people_jsonl) :
                          /\ strip(people_jsonl[i].person) # <<>>
                          /\ n2c[strip(people_jsonl[i].person)] = c})]
     IN /\ name_to_canonical' = n2c
        /\ people' = upsert_people(people, ids, canonical_to_mentions)
  /\ pass_start' = Len(person_mentions)
  /\ idx' = 1
  /\ pc' = "mentions"
  /\ UNCHANGED <<script, person_mentions, people_jsonl, passes, theoryData, normData, etlData>>

\* dedupe_people, lines 180-205: one turn of the loop over the mentions
InsertPersonMention ==
  /\ script = "etl_dedupe_semantic"
  /\ pc = "mentions"
  /\ idx <= Len(people_jsonl)
  /\ LET mention == people_jsonl[idx]
         original_name == strip(mention.person)
     IN person_mentions' =
          IF original_name = <<>> THEN person_mentions
          ELSE IF Raises(mention) THEN person_mentions
          ELSE insert_person_mention(person_mentions,
                 [person_id |-> name_to_canonical[original_name],
                  season |-> PyInt(mention.season),
                  episode |-> PyInt(mention.episode),
                  confidence |-> PyFloat(mention.confidence),
                  mention_type |-> "speaker"])
  /\ idx' = idx + 1
  /\ UNCHANGED <<script, pc, people, people_jsonl, name_to_canonical, passes, pass_start,
                 theoryData, normData, etlData>>

\* dedupe_people, lines 207-210: commit and return; main goes on with the theories
FinishDedupePeople ==
  /\ script = "etl_dedupe_semantic"
  /\ pc = "mentions"
  /\ idx > Len(people_jsonl)
  /\ pc' = "theories"
  /\ UNCHANGED <<script, people, person_mentions, people_jsonl, name_to_canonical, idx,
                 passes, pass_start, theoryData, normData, etlData>>

\* key, canonical id and theory type of the known theories, in source order
KNOWN_THEORIES ==
  << <<<<"t", "r", "e", "a", "s", "u", "r", "e">>, <<"t", "r", "e", "a", "s", "u", "r", "e">>, "treasure">>,
     <<<<"t", "e", "m", "p", "l", "a", "r", "_", "c", "r", "o", "s", "s">>, <<"t", "e", "m", "p", "l", "a", "r", "_", "c", "r", "o", "s", "s">>, "religious">>,
     <<<<"t", "e", "m", "p", "l", "a", "r">>, <<"t", "e", "m", "p", "l", "a", "r">>, "religious">>,
     <<<<"f", "r", "e", "n", "c", "h">>, <<"f", "r", "e", "n", "c", "h">>, "historical">>,
     <<<<"n", "o", "l", "a", "n", "_", "c", "r", "o", "s", "s">>, <<"n", "o", "l", "a", "n", "_", "c", "r", "o", "s", "s">>, "historical">>,
     <<<<"s", "p", "a", "n", "i", "s", "h">>, <<"s", "p", "a", "n", "i", "s", "h">>, "historical">>,
     <<<<"b", "r", "i", "t", "i", "s", "h">>, <<"b", "r", "i", "t", "i", "s", "h">>, "historical">>,
     <<<<"z", "e", "n", "a", "_", "m", "a", "p">>, <<"z", "e", "n", "a", "_", "m", "a", "p">>, "historical">>,
     <<<<"p", "i", "r", "a", "t", "e", "s">>, <<"p", "i", "r", "a", "t", "e", "s">>, "historical">>,
     <<<<"r", "o", "m", "a", "n">>, <<"r", "o", "m", "a", "n">>, "historical">> >>

\* Lines of theories.jsonl (extract_theories.py); season may be null.
TheoryFacts ==
  { [theory |-> <<"t", "e", "m", "p", "l", "a", "r">>, season |-> Num(1), episode |-> Num(1),
     confidence |-> Float(10)],
    [theory |-> <<"v", "i", "k", "i", "n", "g">>, season |-> None, episode |-> Num(2),
     confidence |-> Float(10)] }

theory_slug(original_id) == replace(lower(original_id), " ", "_")

KnownTheoryIds == {KNOWN_THEORIES[i][1] : i \in 1..Len(KNOWN_THEORIES)}

\* canonical_theories: KNOWN_THEORIES.copy(), plus (slug, 'other') for every new slug
canonical_theories(jsonl) ==
  LET named == {strip(jsonl[i].theory) : i \in 1..Len(jsonl)} \ {<<>>}
      slugs == {theory_slug(n) : n \in named}
  IN [t \in KnownTheoryIds \cup slugs |->
        IF t \in KnownTheoryIds
        THEN LET i == CHOOSE j \in 1..Len(KNOWN_THEORIES) : KNOWN_THEORIES[j][1] = t
             IN <<KNOWN_THEORIES[i][2], KNOWN_THEORIES[i][3]>>
        ELSE <<t, "other">>]

\* canonical_to_mentions.get(theory_id, 0)
theory_mention_count(jsonl, theory_id) ==
  Cardinal({i \in 1..Len(jsonl) :
              /\ strip(jsonl[i].theory) # <<>>
              /\ canonical_theories(jsonl)[theory_slug(strip(jsonl[i].theory))][1] = theory_id})

NewTheory(display_name, theory_type, mention_count) ==
  [name |-> title(replace(display_name, "_", " ")), theory_type |-> theory_type,
   evidence_count |-> mention_count,
   first_mentioned_season |-> None, last_mentioned_season |-> None]

\* the loop of lines 272-297 from mention i on: one row per mention, a mention
\* without theory is skipped, one whose season or episode is no int is dropped
RECURSIVE insert_theory_mentions(_, _, _)
insert_theory_mentions(table, jsonl, i) ==
  IF i > Len(jsonl) THEN table
  ELSE LET mention == jsonl[i]
           original_id == strip(mention.theory)
       IN IF original_id = <<>> \/ Raises(mention)
          THEN insert_theory_mentions(table, jsonl, i + 1)
          ELSE insert_theory_mentions(
                 Append(table,
                   [theory_id |-> canonical_theories(jsonl)[theory_slug(original_id)][1],
                    season |-> PyInt(mention.season),
                    episode |-> PyInt(mention.episode),
                    confidence |-> PyFloat(mention.confidence),
                    mention_type |-> "discussed"]),
                 jsonl, i + 1)

\* dedupe_theories, then the end of main: the process exits with status 0
DedupeTheories ==
  /\ script = "etl_dedupe_semantic"
  /\ pc = "theories"
  /\ LET canonical == canonical_theories(theories_jsonl)
     IN theories' = [t \in DOMAIN theories \cup DOMAIN canonical |->
                       IF t \in DOMAIN canonical
                       THEN NewTheory(canonical[t][1], canonical[t][2],
                                      theory_mention_count(theories_jsonl, t))
                       ELSE theories[t]]
  /\ theory_mentions' = insert_theory_mentions(theory_mentions, theories_jsonl, 1)
  /\ pc' = "start"
  /\ passes' = passes + 1
  /\ UNCHANGED <<script, people, person_mentions, people_jsonl, name_to_canonical, idx,
                 pass_start, theories_jsonl, normData, etlData>>

\* ------------------------------------------ etl_normalize_semantic.py
\* no script of the pipeline writes artifact_evidence
artifact_evidence == <<>>

Seasons(ledger, key, id) == {ledger[i].season : i \in {j \in 1..Len(ledger) : ledger[j][key] = id}}

\* SELECT MIN(season): NULL when no row matches
MinSeason(set) == IF set = {} THEN None ELSE Num(CHOOSE m \in set : \A x \in set : m <= x)

MaxSeason(set) == IF set = {} THEN None ELSE Num(CHOOSE m \in set : \A x \in set : m >= x)

CountRows(ledger, key, id) == Cardinal({i \in 1..Len(ledger) : ledger[i][key] = id})

\* statistics maintained incrementally: the count of the ledger added to the stored one
update_people_statistics_incremental(table, ledger) ==
  [c \in DOMAIN table |->
     [table[c] EXCEPT
        !.first_appearance_season = MinSeason(Seasons(ledger, "person_id", c)),
        !.last_appearance_season = MaxSeason(Seasons(ledger, "person_id", c)),
        !.mention_count = table[c].mention_count + CountRows(ledger, "person_id", c)]]

\* UPDATE people SET first_appearance_season, last_appearance_season, mention_count
update_people_statistics(table, ledger) ==
  [c \in DOMAIN table |->
     [table[c] EXCEPT
        !.first_appearance_season = MinSeason(Seasons(ledger, "person_id", c)),
        !.last_appearance_season = MaxSeason(Seasons(ledger, "person_id", c)),
        !.mention_count = CountRows(ledger, "person_id", c)]]

\* UPDATE theories SET first_mentioned_season, last_mentioned_season, evidence_count
update_theories_statistics(table, ledger, evidence) ==
  [t \in DOMAIN table |->
     [table[t] EXCEPT
        !.first_mentioned_season = MinSeason(Seasons(ledger, "theory_id", t)),
        !.last_mentioned_season = MaxSeason(Seasons(ledger, "theory_id", t)),
        !.evidence_count =
           Cardinal({evidence[i].artifact_id :
                       i \in {j \in 1..Len(evidence) : evidence[j].theory_id = t}})]]

\* main of etl_normalize_semantic.py on the database the deduplication left;
\* its other steps only read
UpdateStatistics ==
  /\ script = "etl_dedupe_semantic"
  /\ pc = "start"
  /\ passes > 0
  /\ people' = update_people_statistics(people, person_mentions)
  /\ theories' = update_theories_statistics(theories, theory_mentions, artifact_evidence)
  /\ UNCHANGED <<script, pc, person_mentions, people_jsonl, name_to_canonical, idx, passes,
                 pass_start, theory_mentions, theories_jsonl, normData, etlData>>

\* the two fact files hold at most MaxMentions lines together
InitDedupe ==
  /\ script = "etl_dedupe_semantic"
  /\ pc = "start"
  /\ people = EmptyDict
  /\ person_mentions = <<>>
  /\ people_jsonl \in SeqsUpTo(PeopleFacts, MaxMentions)
  /\ theories_jsonl \in SeqsUpTo(TheoryFacts, MaxMentions - Len(people_jsonl))
  /\ name_to_canonical = EmptyDict
  /\ idx = 1
  /\ passes = 0
  /\ pass_start = 0
  /\ theories = EmptyDict
  /\ theory_mentions = <<>>
  /\ existing = EmptyDict
  /\ csvFile = <<>>
  /\ supplier = EmptyDict
  /\ EtlIdle

NextDedupe ==
  \/ DedupePeopleUpsert \/ InsertPersonMention \/ FinishDedupePeople
  \/ DedupeTheories \/ UpdateStatistics

SpecDedupe == InitDedupe /\ [][NextDedupe]_vars

\* ------------------------------------------ an interrupted dedupe pass
MaxInterrupts == 1

\* The process ends between two statements of main (a kill, a power cut): what
\* dedupe_people committed at lines 170 and 207 stays in the database, the rows
\* of the mention loop that were not committed yet are rolled back, and the
\* next pass starts from the top of main.
InterruptPass ==
  /\ script = "etl_dedupe_semantic"
  /\ pc \in {"mentions", "theories"}
  /\ Len(summary) < MaxInterrupts
  /\ person_mentions' = IF pc = "mentions"
                         THEN SubSeq(person_mentions, 1, pass_start)
                         ELSE person_mentions
  /\ summary' = Append(summary, <<"interrupted", pc>>)
  /\ pc' = "start"
  /\ UNCHANGED <<script, people, people_jsonl, name_to_canonical, idx, passes, pass_start,
                 theoryData, normData, on_disk, data, db, maps, returned, exit_status,
                 records_read>>

NextResume == NextDedupe \/ InterruptPass

SpecResume == InitDedupe /\ [][NextResume]_vars

\* ------------------------------------------------------ etl/run_all.py
\* The database is a record of tables, a table the sequence of its rows in
\* insertion order; the surrogate id of a row is its position (no row is ever
\* deleted).  db.tables says whether the schema has been created.  Of the steps
\* of main, init_db and the ingest_* of ingest_core.py on the entity tables and
\* on measurements are here, in the order of the list.
MaxRecords == 2

EpisodeRecords ==
  { [season |-> 1, episode |-> 1, title |-> "The Find"],
    [season |-> 1, episode |-> 1, title |-> "The Find (recut)"],
    [season |-> 1, episode |-> 2, title |-> "The Flood"] }

LocationRecords ==
  { [id |-> "money_pit", name |-> "Money Pit"],
    [id |-> "money_pit", name |-> "The Money Pit"],
    [id |-> "swamp", name |-> "Swamp"] }

\* location "" stands for a record without a location
ArtifactRecords ==
  { [id |-> "coin", name |-> "Coin", location |-> "money_pit"],
    [id |-> "coin", name |-> "Spanish coin", location |-> ""],
    [id |-> "cross", name |-> "Lead cross", location |-> "smiths_cove"] }

MeasurementRecords ==
  { [season |-> 1, episode |-> 1, value |-> 90, unit |-> "feet"],
    [season |-> 2, episode |-> 1, value |-> 90, unit |-> "ft"] }

\* person "" stands for a record that has only the 'name' field
PersonRecords ==
  { [person |-> "Rick Lagina", name |-> "", role |-> "host"],
    [person |-> "", name |-> "Rick Lagina", role |-> "producer"],
    [person |-> "Marty Lagina", name |-> "", role |-> "host"] }

DataFiles ==
  {"episodes.json", "locations.json", "artifacts_summary.json", "measurements.json",
   "people.json"}

SCHEMA_PATH == "schema.sql"

EmptyTables ==
  [tables |-> FALSE, episodes |-> <<>>, locations |-> <<>>, artifacts |-> <<>>,
   measurements |-> <<>>, people |-> <<>>]

\* EPISODE_MAP and LOCATION_MAP of a new process, as sets of <<key, id>>
EmptyMaps == [episodes |-> {}, locations |-> {}]

\* SELECT id FROM table WHERE key = :key ... fetchone(): the first match, 0 for no row
select_id(table, key) ==
  IF \E i \in 1..Len(table) : table[i].key = key
  THEN CHOOSE i \in 1..Len(table) :
         table[i].key = key /\ \A j \in 1..(i - 1) : table[j].key # key
  ELSE 0

\* an ingest that inserts without looking for the row of the key
upsert_insert_only(table, key, val) ==
  Append(table, [key |-> key, val |-> val])

\* the upsert of every ingest_*: UPDATE the row of the key if there is one, else INSERT
upsert(table, key, val) ==
  LET id == select_id(table, key) IN
  IF id # 0 THEN [table EXCEPT ![id].val = val]
  ELSE Append(table, [key |-> key, val |-> val])

in_map(map, key) == \E p \in map : p[1] = key
map_get(map, key) == (CHOOSE p \in map : p[1] = key)[2]

\* the tables after get_or_create_*: a row with the default value is inserted
\* and committed when neither the map nor the table has the key
get_or_create_tables(ctx, kind, key, val) ==
  IF in_map(ctx.maps[kind], key) \/ select_id(ctx.db[kind], key) # 0 THEN ctx.db
  ELSE [ctx.db EXCEPT ![kind] = Append(@, [key |-> key, val |-> val])]

\* the id get_or_create_* returns: from the map, else from the table, else
\* from the table after the insert
get_or_create_id(ctx, kind, key, val) ==
  IF in_map(ctx.maps[kind], key) THEN map_get(ctx.maps[kind], key)
  ELSE select_id(get_or_create_tables(ctx, kind, key, val)[kind], key)

\* get_or_create_*: the call caches the id; returned keeps every <<key, id>> ever returned
get_or_create(ctx, kind, key, val) ==
  LET id == get_or_create_id(ctx, kind, key, val) IN
  [db |-> get_or_create_tables(ctx, kind, key, val),
   maps |-> [ctx.maps EXCEPT ![kind] = @ \cup {<<key, id>>}],
   returned |-> [ctx.returned EXCEPT ![kind] = @ \cup {<<key, id>>}]]

RECURSIVE ingest_episodes(_, _, _)
ingest_episodes(ctx, eps, i) ==
  IF i > Len(eps) THEN ctx
  ELSE ingest_episodes(
         [ctx EXCEPT !.db.episodes =
            upsert(@, <<eps[i].season, eps[i].episode>>, eps[i].title)],
         eps, i + 1)

RECURSIVE ingest_locations(_, _, _)
ingest_locations(ctx, locs, i) ==
  IF i > Len(locs) THEN ctx
  ELSE ingest_locations(
         [ctx EXCEPT !.db.locations = upsert(@, locs[i].id, locs[i].name)],
         locs, i + 1)

RECURSIVE ingest_artifacts(_, _, _)
ingest_artifacts(ctx, arts, i) ==
  IF i > Len(arts) THEN ctx
  ELSE LET art == arts[i]
           resolved == IF art.location # ""
                       THEN get_or_create(ctx, "locations", art.location, art.location)
                       ELSE ctx
           location_id == IF art.location # ""
                          THEN get_or_create_id(ctx, "locations", art.location, art.location)
                          ELSE 0
       IN ingest_artifacts(
            [resolved EXCEPT !.db.artifacts =
               upsert(@, art.id, [name |-> art.name, location_id |-> location_id])],
            arts, i + 1)

UnknownTitle == "Unknown"

RECURSIVE ingest_measurements(_, _, _)
ingest_measurements(ctx, ms, i) ==
  IF i > Len(ms) THEN ctx
  ELSE LET m == ms[i]
           key == <<m.season, m.episode>>
           resolved == get_or_create(ctx, "episodes", key, UnknownTitle)
           episode_id == get_or_create_id(ctx, "episodes", key, UnknownTitle)
       IN ingest_measurements(
            [resolved EXCEPT !.db.measurements = upsert(@, <<episode_id, m.value>>, m.unit)],
            ms, i + 1)

RECURSIVE ingest_people(_, _, _)
ingest_people(ctx, ps, i) ==
  IF i > Len(ps) THEN ctx
  ELSE LET name == IF ps[i].person # "" THEN ps[i].person ELSE ps[i].name
       IN ingest_people([ctx EXCEPT !.db.people = upsert(@, name, ps[i].role)], ps, i + 1)

Context == [db |-> db, maps |-> maps, returned |-> returned]

\* what makes an ingest step raise: open() of a file that is not there, or a
\* statement on a database without tables
StepRaises(file, records) ==
  \/ file \notin on_disk
  \/ ~db.tables /\ records # <<>>

Outcome(file, records) == IF StepRaises(file, records) THEN "error" ELSE "success"

\* one turn of the loop of main: the step's outcome goes into the summary; a
\* step that raised leaves the database as it was
Step(name, file, records, after, next) ==
  /\ pc = name
  /\ summary' = Append(summary, <<name, Outcome(file, records)>>)
  /\ IF StepRaises(file, records)
     THEN UNCHANGED <<db, maps, returned>>
     ELSE /\ db' = after.db
          /\ maps' = after.maps
          /\ returned' = after.returned
  /\ pc' = next
  /\ UNCHANGED <<script, on_disk, data, records_read, exit_status, normData, dedupeData>>

\* python -m etl.run_all: a new process with empty id maps
StartRunAll ==
  /\ script = "run_all"
  /\ pc = "idle"
  /\ passes < MaxPasses
  /\ maps' = EmptyMaps
  /\ summary' = <<>>
  /\ pc' = "init_db"
  /\ UNCHANGED <<script, on_disk, data, records_read, db, returned, exit_status, normData, people,
                 person_mentions, people_jsonl, name_to_canonical, idx, passes, pass_start,
                 theoryData>>

\* init_db: executes the statements of schema.sql
InitDb ==
  /\ script = "run_all"
  /\ pc = "init_db"
  /\ summary' = Append(summary, <<"init_db", IF SCHEMA_PATH \in on_disk THEN "success" ELSE "error">>)
  /\ db' = IF SCHEMA_PATH \in on_disk THEN [db EXCEPT !.tables = TRUE] ELSE db
  /\ pc' = "ingest_episodes"
  /\ UNCHANGED <<script, on_disk, data, records_read, maps, returned, exit_status, normData, dedupeData>>

IngestEpisodes ==
  /\ script = "run_all"
  /\ Step("ingest_episodes", "episodes.json", data.episodes,
          ingest_episodes(Context, data.episodes, 1), "ingest_locations")

IngestLocations ==
  /\ script = "run_all"
  /\ Step("ingest_locations", "locations.json", data.locations,
          ingest_locations(Context, data.locations, 1), "ingest_artifacts")

IngestArtifacts ==
  /\ script = "run_all"
  /\ Step("ingest_artifacts", "artifacts_summary.json", data.artifacts,
          ingest_artifacts(Context, data.artifacts, 1), "ingest_measurements")

IngestMeasurements ==
  /\ script = "run_all"
  /\ Step("ingest_measurements", "measurements.json", data.measurements,
          ingest_measurements(Context, data.measurements, 1), "ingest_people")

IngestPeople ==
  /\ script = "run_all"
  /\ Step("ingest_people", "people.json", data.people,
          ingest_people(Context, data.people, 1), "complete")

\* log_info('etl_orchestrator_complete', summary=summary); main returns
RunAllComplete ==
  /\ script = "run_all"
  /\ pc = "complete"
  /\ exit_status' = 0
  /\ passes' = passes + 1
  /\ pc' = "idle"
  /\ UNCHANGED <<script, on_disk, data, records_read, db, maps, returned, summary, normData, people,
                 person_mentions, people_jsonl, name_to_canonical, idx, pass_start, theoryData>>

SeqsOfLen(S, n) == [1..n -> S]

\* the source files hold at most MaxRecords records together; a file with
\* records is on disk, an empty one is on disk or missing
InitRunAll ==
  /\ script = "run_all"
  /\ pc = "idle"
  /\ \E e, l, a, m, p \in 0..MaxRecords :
       /\ e + l + a + m + p <= MaxRecords
       /\ data \in [episodes : SeqsOfLen(EpisodeRecords, e),
                    locations : SeqsOfLen(LocationRecords, l),
                    artifacts : SeqsOfLen(ArtifactRecords, a),
                    measurements : SeqsOfLen(MeasurementRecords, m),
                    people : SeqsOfLen(PersonRecords, p)]
  /\ on_disk \in SUBSET (DataFiles \cup {SCHEMA_PATH})
  /\ data.episodes # <<>> => "episodes.json" \in on_disk
  /\ data.locations # <<>> => "locations.json" \in on_disk
  /\ data.artifacts # <<>> => "artifacts_summary.json" \in on_disk
  /\ data.measurements # <<>> => "measurements.json" \in on_disk
  /\ data.people # <<>> => "people.json" \in on_disk
  /\ db = EmptyTables
  /\ maps = EmptyMaps
  /\ returned = EmptyMaps
  /\ summary = <<>>
  /\ exit_status = 0
  /\ records_read = 0
  /\ existing = EmptyDict
  /\ csvFile = <<>>
  /\ supplier = EmptyDict
  /\ people = <<>>
  /\ person_mentions = <<>>
  /\ people_jsonl = <<>>
  /\ name_to_canonical = <<>>
  /\ idx = 1
  /\ passes = 0
  /\ pass_start = 0
  /\ theories = <<>>
  /\ theory_mentions = <<>>
  /\ theories_jsonl = <<>>

NextRunAll ==
  \/ StartRunAll \/ InitDb \/ IngestEpisodes \/ IngestLocations \/ IngestArtifacts
  \/ IngestMeasurements \/ IngestPeople \/ RunAllComplete

SpecRunAll == InitRunAll /\ [][NextRunAll]_vars

\* --------------------------- semantic_sqlite_pipeline/etl_ingest_semantic.py
\* The tables are keyed by id.  summary is the trace of a run: <<"write", step, i>>
\* for an executed statement of record i, <<"error", step, i>> for the
\* logger.error of a statement the store rejected.  Of the six ingest_* calls of
\* main the four on locations, episodes, measurements and boreholes are here;
\* ingest_artifacts has the shape of ingest_locations, ingest_events that of
\* ingest_measurements.
SemLocationRecords ==
  { [id |-> "money_pit", name |-> "Money Pit"],
    [id |-> "money_pit", name |-> "The Money Pit"],
    [id |-> "swamp", name |-> "Swamp"] }

SemEpisodeRecords ==
  { [season |-> Num(1), episode |-> Num(1), title |-> "The Find"],
    [season |-> None, episode |-> Num(1), title |-> "Untitled"] }

SemMeasurementRecords ==
  { [season |-> Num(1), episode |-> Num(1), value |-> 90],
    [season |-> Num(1), episode |-> Num(2), value |-> 5],
    [season |-> None, episode |-> Num(1), value |-> 7] }

\* borehole_id "" stands for a reference without a borehole_id
SemBoreholeRecords ==
  { [borehole_id |-> "10-X"], [borehole_id |-> ""] }

SemFiles == {"locations.json", "episodes.json", "measurements.json", "boreholes.jsonl"}

SemEmptyTables ==
  [tables |-> FALSE, locations |-> <<>>, episodes |-> <<>>, measurements |-> <<>>,
   boreholes |-> <<>>]

HasId(table, id) == \E i \in 1..Len(table) : table[i].key = id

Without(table, id) == SelectSeq(table, LAMBDA row : row.key # id)

\* a caller that rebuilds the table from the record at hand
insert_or_replace_rebuild(table, id, val) ==
  <<[key |-> id, val |-> val]>>

\* INSERT OR REPLACE: the row of the id, if any, gives way to the new row
insert_or_replace(table, id, val) ==
  Append(Without(table, id), [key |-> id, val |-> val])

\* INSERT OR IGNORE
insert_or_ignore(table, id, val) ==
  IF HasId(table, id) THEN table ELSE Append(table, [key |-> id, val |-> val])

\* load_json(...) or [], load_jsonl: a file that is not there gives no records
load_or_empty(file, records) == IF file \in on_disk THEN records ELSE <<>>

\* the state of one ingest_* loop: the table and the trace
RECURSIVE sem_ingest_locations(_, _, _, _)
sem_ingest_locations(st, locs, rejected, i) ==
  IF i > Len(locs) THEN st
  ELSE sem_ingest_locations(
         IF i = rejected
         THEN [st EXCEPT !.log = Append(@, <<"error", "locations", i>>)]
         ELSE [table |-> insert_or_replace(st.table, locs[i].id, locs[i].name),
               log |-> Append(st.log, <<"write", "locations", i>>)],
         locs, rejected, i + 1)

\* f"s{season:02d}e{episode:02d}"
episode_id(season, episode) == <<season.num, episode.num>>

RECURSIVE sem_ingest_episodes(_, _, _, _)
sem_ingest_episodes(st, eps, rejected, i) ==
  IF i > Len(eps) THEN st
  ELSE sem_ingest_episodes(
         IF eps[i].season = None \/ eps[i].episode = None THEN st
         ELSE IF i = rejected
         THEN [st EXCEPT !.log = Append(@, <<"error", "episodes", i>>)]
         ELSE [table |-> insert_or_replace(st.table,
                           episode_id(eps[i].season, eps[i].episode), eps[i].title),
               log |-> Append(st.log, <<"write", "episodes", i>>)],
         eps, rejected, i + 1)

\* f"m_{season}_{episode}_{i}", i counted from 0
measurement_id(season, episode, i) == <<season.num, episode.num, i - 1>>

\* plain INSERT: the store appends the row unless it rejects the statement
RECURSIVE sem_ingest_measurements(_, _, _, _)
sem_ingest_measurements(st, ms, rejected, i) ==
  IF i > Len(ms) THEN st
  ELSE sem_ingest_measurements(
         IF ms[i].season = None \/ ms[i].episode = None THEN st
         ELSE IF i = rejected
         THEN [st EXCEPT !.log = Append(@, <<"error", "measurements", i>>)]
         ELSE [table |-> Append(st.table,
                           [key |-> measurement_id(ms[i].season, ms[i].episode, i),
                            val |-> ms[i].value]),
               log |-> Append(st.log, <<"write", "measurements", i>>)],
         ms, rejected, i + 1)

\* unique_boreholes: a borehole_id is written once per run
RECURSIVE sem_ingest_boreholes(_, _, _, _, _)
sem_ingest_boreholes(st, bhs, unique_boreholes, rejected, i) ==
  IF i > Len(bhs) THEN st
  ELSE LET bh_id == bhs[i].borehole_id IN
       IF bh_id = "" \/ bh_id \in unique_boreholes
       THEN sem_ingest_boreholes(st, bhs, unique_boreholes, rejected, i + 1)
       ELSE IF i = rejected
       THEN sem_ingest_boreholes([st EXCEPT !.log = Append(@, <<"error", "boreholes", i>>)],
                                 bhs, unique_boreholes, rejected, i + 1)
       ELSE sem_ingest_boreholes(
              [table |-> insert_or_ignore(st.table, bh_id, bh_id),
               log |-> Append(st.log, <<"write", "boreholes", i>>)],
              bhs, unique_boreholes \cup {bh_id}, rejected, i + 1)

RecordCount(f) ==
  Len(f.episodes) + Len(f.locations) + Len(f.measurements) + Len(f.boreholes)

\* the files of a run, of at most n records together
SemInputs(n) ==
  { f \in [episodes : SeqsUpTo(SemEpisodeRecords, n),
           locations : SeqsUpTo(SemLocationRecords, n),
           measurements : SeqsUpTo(SemMeasurementRecords, n),
           boreholes : SeqsUpTo(SemBoreholeRecords, n)] : RecordCount(f) <= n }

\* a file is on disk when it has records; schema.sql may be there or not
SemOnDisk(f) ==
  { s \in SUBSET (SemFiles \cup {SCHEMA_PATH}) :
      /\ "episodes.json" \in s <=> f.episodes # <<>>
      /\ "locations.json" \in s <=> f.locations # <<>>
      /\ "measurements.json" \in s <=> f.measurements # <<>>
      /\ "boreholes.jsonl" \in s <=> f.boreholes # <<>> }

\* main up to the schema: the files of this run (the runs read at most
\* MaxRecords records together), --drop-existing, connect, executescript(schema)
\* or return 1
StartIngestWith(drop_existing) ==
  /\ script = "etl_ingest_semantic"
  /\ pc = "idle"
  /\ passes < MaxPasses
  /\ data' \in SemInputs(MaxRecords - records_read)
  /\ on_disk' \in SemOnDisk(data')
  /\ records_read' = records_read + RecordCount(data')
  /\ summary' = <<>>
  /\ LET connected == IF drop_existing THEN SemEmptyTables ELSE db IN
     IF SCHEMA_PATH \in on_disk'
     THEN /\ db' = [connected EXCEPT !.tables = TRUE]
          /\ pc' = "locations"
          /\ UNCHANGED <<exit_status, passes>>
     ELSE /\ db' = connected
          /\ exit_status' = 1
          /\ passes' = passes + 1
          /\ pc' = "idle"
  /\ UNCHANGED <<script, maps, returned, normData, people, person_mentions, people_jsonl,
                 name_to_canonical, idx, pass_start, theoryData>>

StartIngest == \E drop_existing \in BOOLEAN : StartIngestWith(drop_existing)

\* one ingest_* call of main; the store rejects at most the statement of record
\* 'rejected' (0: none)
SemStep(name, after, next) ==
  /\ pc = name
  /\ db' = [db EXCEPT ![name] = after.table]
  /\ summary' = after.log
  /\ pc' = next
  /\ UNCHANGED <<script, on_disk, data, records_read, maps, returned, exit_status, normData, dedupeData>>

SemState(name) == [table |-> db[name], log |-> summary]

IngestSemLocations ==
  /\ script = "etl_ingest_semantic"
  /\ \E rejected \in 0..Len(data.locations) :
       SemStep("locations",
               sem_ingest_locations(SemState("locations"),
                 load_or_empty("locations.json", data.locations), rejected, 1),
               "episodes")

IngestSemEpisodes ==
  /\ script = "etl_ingest_semantic"
  /\ \E rejected \in 0..Len(data.episodes) :
       SemStep("episodes",
               sem_ingest_episodes(SemState("episodes"),
                 load_or_empty("episodes.json", data.episodes), rejected, 1),
               "measurements")

IngestSemMeasurements ==
  /\ script = "etl_ingest_semantic"
  /\ \E rejected \in 0..Len(data.measurements) :
       SemStep("measurements",
               sem_ingest_measurements(SemState("measurements"),
                 load_or_empty("measurements.json", data.measurements), rejected, 1),
               "boreholes")

IngestSemBoreholes ==
  /\ script = "etl_ingest_semantic"
  /\ \E rejected \in 0..Len(data.boreholes) :
       SemStep("boreholes",
               sem_ingest_boreholes(SemState("boreholes"),
                 load_or_empty("boreholes.jsonl", data.boreholes), {}, rejected, 1),
               "complete")

\* the summary counts are logged, main returns 0
IngestSemComplete ==
  /\ script = "etl_ingest_semantic"
  /\ pc = "complete"
  /\ summary' = Append(summary, <<"complete">>)
  /\ exit_status' = 0
  /\ passes' = passes + 1
  /\ pc' = "idle"
  /\ UNCHANGED <<script, on_disk, data, records_read, db, maps, returned, normData, people,
                 person_mentions, people_jsonl, name_to_canonical, idx, pass_start, theoryData>>

InitIngest ==
  /\ script = "etl_ingest_semantic"
  /\ pc = "idle"
  /\ on_disk = {}
  /\ data = [episodes |-> <<>>, locations |-> <<>>, measurements |-> <<>>, boreholes |-> <<>>]
  /\ db = SemEmptyTables
  /\ maps = <<>>
  /\ returned = <<>>
  /\ summary = <<>>
  /\ exit_status = 0
  /\ records_read = 0
  /\ existing = EmptyDict
  /\ csvFile = <<>>
  /\ supplier = EmptyDict
  /\ people = <<>>
  /\ person_mentions = <<>>
  /\ people_jsonl = <<>>
  /\ name_to_canonical = <<>>
  /\ idx = 1
  /\ passes = 0
  /\ pass_start = 0
  /\ theories = <<>>
  /\ theory_mentions = <<>>
  /\ theories_jsonl = <<>>

NextIngest ==
  \/ StartIngest \/ IngestSemLocations \/ IngestSemEpisodes \/ IngestSemMeasurements
  \/ IngestSemBoreholes \/ IngestSemComplete

SpecIngest == InitIngest /\ [][NextIngest]_vars

\* ------------------------------------------------ pipeline/etl_pipeline.py
\* OakIslandETL.run.  maps is the memory of the process (self.stats and
\* self.locations_seen), summary its log: <<"error">> for 'ETL Pipeline failed',
\* <<"statistics", stats>> for the statistics block.  Of the load_* steps the
\* ones on locations and measurements are here; load_episodes, load_people and
\* load_theories have the shape of load_locations, load_events that of
\* load_measurements.
PipeMeasurementRecords == { [value |-> 90], [value |-> 0] }

PipeInputs(n) ==
  { f \in [locations : SeqsUpTo(SemLocationRecords, n),
           measurements : SeqsUpTo(PipeMeasurementRecords, n)] :
      Len(f.locations) + Len(f.measurements) <= n }

PipeOnDisk(f) ==
  { s \in SUBSET {"locations.json", "measurements.json", SCHEMA_PATH} :
      /\ "locations.json" \in s <=> f.locations # <<>>
      /\ "measurements.json" \in s <=> f.measurements # <<>> }

PipeEmptyTables == [tables |-> FALSE, locations |-> <<>>, measurements |-> <<>>]

NewProcess == [stats |-> EmptyDict, locations_seen |-> {}, dry_run |-> FALSE]

\* self.stats[key] += n on a defaultdict(int)
Bump(stats, key, n) ==
  Put(stats, key, (IF key \in DOMAIN stats THEN stats[key] ELSE 0) + n)

\* the except branch of run: log the error, roll back the open transaction,
\* close and raise again; the interpreter ends with status 1
PipelineFails ==
  /\ summary' = Append(summary, <<"error">>)
  /\ exit_status' = 1
  /\ passes' = passes + 1
  /\ pc' = "idle"

\* run up to initialize_db: the files of this run, then --reset removes the
\* database file, then --dry-run returns; otherwise connect and run the schema
StartPipelineWith(reset, dry_run) ==
  /\ script = "etl_pipeline"
  /\ pc = "idle"
  /\ passes < MaxPasses
  /\ data' \in PipeInputs(MaxRecords - records_read)
  /\ on_disk' \in PipeOnDisk(data')
  /\ records_read' = records_read + Len(data'.locations) + Len(data'.measurements)
  /\ maps' = [NewProcess EXCEPT !.dry_run = dry_run]
  /\ LET connected == IF reset THEN PipeEmptyTables ELSE db IN
     IF dry_run
     THEN /\ db' = connected
          /\ summary' = <<>>
          /\ pc' = "load_locations"
          /\ UNCHANGED <<exit_status, passes>>
     ELSE IF SCHEMA_PATH \in on_disk'
     THEN /\ db' = [connected EXCEPT !.tables = TRUE]
          /\ summary' = <<>>
          /\ pc' = "load_locations"
          /\ UNCHANGED <<exit_status, passes>>
     ELSE /\ db' = connected
          /\ summary' = <<<<"error">>>>
          /\ exit_status' = 1
          /\ passes' = passes + 1
          /\ pc' = "idle"
  /\ UNCHANGED <<script, returned, normData, people, person_mentions, people_jsonl,
                 name_to_canonical, idx, pass_start, theoryData>>

StartPipeline == \E reset, dry_run \in BOOLEAN : StartPipelineWith(reset, dry_run)

\* the loop of load_locations: [table, mem] after the records from i on
RECURSIVE pipe_load_locations(_, _, _)
pipe_load_locations(st, locs, i) ==
  IF i > Len(locs) THEN st
  ELSE pipe_load_locations(
         IF locs[i].id \in st.mem.locations_seen
         THEN [st EXCEPT !.mem.stats = Bump(@, "locations_duplicates", 1)]
         ELSE [table |-> insert_or_ignore(st.table, locs[i].id, locs[i].name),
               mem |-> [st.mem EXCEPT
                          !.stats = Bump(@, "locations_inserted", 1),
                          !.locations_seen = @ \cup {locs[i].id}]],
         locs, i + 1)

\* load_locations; the store rejects the statement of record 'rejected' (0: none)
PipelineLoadLocations ==
  /\ script = "etl_pipeline"
  /\ pc = "load_locations"
  /\ \E rejected \in 0..Len(data.locations) :
       IF "locations.json" \notin on_disk
       THEN /\ pc' = "load_measurements"
            /\ UNCHANGED <<db, maps, summary, exit_status, passes>>
       ELSE IF maps.dry_run
       THEN /\ maps' = [maps EXCEPT !.stats = Put(@, "locations_read", Len(data.locations))]
            /\ pc' = "load_measurements"
            /\ UNCHANGED <<db, summary, exit_status, passes>>
       ELSE IF rejected # 0 /\ data.locations[rejected].id \notin
                 {data.locations[j].id : j \in 1..(rejected - 1)}
       THEN /\ PipelineFails
            /\ UNCHANGED <<db, maps>>
       ELSE LET after == pipe_load_locations([table |-> db.locations, mem |-> maps],
                                             data.locations, 1)
            IN /\ db' = [db EXCEPT !.locations = after.table]
               /\ maps' = [after.mem EXCEPT
                             !.stats = Put(@, "locations_read", Len(data.locations))]
               /\ pc' = "load_measurements"
               /\ UNCHANGED <<summary, exit_status, passes>>
  /\ UNCHANGED <<script, on_disk, data, records_read, returned, normData, people,
                 person_mentions, people_jsonl, name_to_canonical, idx, pass_start, theoryData>>

\* f"meas_{self.stats['measurements_inserted']}"
meas_id(stats) ==
  <<"meas", IF "measurements_inserted" \in DOMAIN stats THEN stats["measurements_inserted"] ELSE 0>>

RECURSIVE pipe_load_measurements(_, _, _)
pipe_load_measurements(st, ms, i) ==
  IF i > Len(ms) THEN st
  ELSE pipe_load_measurements(
         IF ms[i].value = 0
         THEN [st EXCEPT !.mem.stats = Bump(@, "measurements_skipped", 1)]
         ELSE [table |-> Append(st.table, [key |-> meas_id(st.mem.stats), val |-> ms[i].value]),
               mem |-> [st.mem EXCEPT !.stats = Bump(@, "measurements_inserted", 1)]],
         ms, i + 1)

\* load_measurements: a plain INSERT per record with a value
PipelineLoadMeasurements ==
  /\ script = "etl_pipeline"
  /\ pc = "load_measurements"
  /\ \E rejected \in 0..Len(data.measurements) :
       IF "measurements.json" \notin on_disk
       THEN /\ pc' = "export_json_views"
            /\ UNCHANGED <<db, maps, summary, exit_status, passes>>
       ELSE IF maps.dry_run
       THEN /\ maps' = [maps EXCEPT
                          !.stats = Put(@, "measurements_read", Len(data.measurements))]
            /\ pc' = "export_json_views"
            /\ UNCHANGED <<db, summary, exit_status, passes>>
       ELSE IF rejected # 0 /\ data.measurements[rejected].value # 0
       THEN /\ PipelineFails
            /\ UNCHANGED <<db, maps>>
       ELSE LET after == pipe_load_measurements([table |-> db.measurements, mem |-> maps],
                                                data.measurements, 1)
            IN /\ db' = [db EXCEPT !.measurements = after.table]
               /\ maps' = [after.mem EXCEPT
                             !.stats = Put(@, "measurements_read", Len(data.measurements))]
               /\ pc' = "export_json_views"
               /\ UNCHANGED <<summary, exit_status, passes>>
  /\ UNCHANGED <<script, on_disk, data, records_read, returned, normData, people,
                 person_mentions, people_jsonl, name_to_canonical, idx, pass_start, theoryData>>

\* export_json_views writes locations.json from the table (a dry run returns
\* before), then the statistics block is logged and run returns
PipelineExportAndStatistics ==
  /\ script = "etl_pipeline"
  /\ pc = "export_json_views"
  /\ IF maps.dry_run
     THEN UNCHANGED <<data, on_disk, maps>>
     ELSE /\ data' = [data EXCEPT !.locations =
                        [i \in 1..Len(db.locations) |->
                           [id |-> db.locations[i].key, name |-> db.locations[i].val]]]
          /\ on_disk' = on_disk \cup {"locations.json"}
          /\ maps' = [maps EXCEPT !.stats = Put(@, "json_views_exported", 4)]
  /\ summary' = Append(summary, <<"statistics", maps'.stats>>)
  /\ exit_status' = 0
  /\ passes' = passes + 1
  /\ pc' = "idle"
  /\ UNCHANGED <<script, db, records_read, returned, normData, people, person_mentions,
                 people_jsonl, name_to_canonical, idx, pass_start, theoryData>>

InitPipeline ==
  /\ script = "etl_pipeline"
  /\ pc = "idle"
  /\ on_disk = {}
  /\ data = [locations |-> <<>>, measurements |-> <<>>]
  /\ db = PipeEmptyTables
  /\ maps = NewProcess
  /\ returned = <<>>
  /\ summary = <<>>
  /\ exit_status = 0
  /\ records_read = 0
  /\ existing = EmptyDict
  /\ csvFile = <<>>
  /\ supplier = EmptyDict
  /\ people = <<>>
  /\ person_mentions = <<>>
  /\ people_jsonl = <<>>
  /\ name_to_canonical = <<>>
  /\ idx = 1
  /\ passes = 0
  /\ pass_start = 0
  /\ theories = <<>>
  /\ theory_mentions = <<>>
  /\ theories_jsonl = <<>>

NextPipeline ==
  \/ StartPipeline \/ PipelineLoadLocations \/ PipelineLoadMeasurements
  \/ PipelineExportAndStatistics

\* ------------------------------------------ etl_pipeline.py run again
\* The first run of a behaviour has neither --reset nor --dry-run; every later
\* one is a new process without them over the data directory as the run before
\* left it.
FirstRun ==
  /\ passes = 0
  /\ StartPipelineWith(FALSE, FALSE)

RunPipelineAgain ==
  /\ script = "etl_pipeline"
  /\ pc = "idle"
  /\ passes >= 1
  /\ passes < MaxPasses
  /\ maps' = NewProcess
  /\ IF SCHEMA_PATH \in on_disk
     THEN /\ db' = [db EXCEPT !.tables = TRUE]
          /\ summary' = <<>>
          /\ pc' = "load_locations"
          /\ UNCHANGED <<exit_status, passes>>
     ELSE /\ summary' = <<<<"error">>>>
          /\ exit_status' = 1
          /\ passes' = passes + 1
          /\ pc' = "idle"
          /\ UNCHANGED db
  /\ UNCHANGED <<script, on_disk, data, records_read, returned, normData, people,
                 person_mentions, people_jsonl, name_to_canonical, idx, pass_start, theoryData>>

NextPipelineAgain ==
  \/ FirstRun \/ RunPipelineAgain \/ PipelineLoadLocations \/ PipelineLoadMeasurements
  \/ PipelineExportAndStatistics

SpecPipelineAgain == InitPipeline /\ [][NextPipelineAgain]_vars

\* ------------------------------- pipeline/validators/validate_canonical.py
REQUIRED ==
  <<"episodes.csv", "locations.csv", "boreholes.csv", "borehole_intervals.csv",
    "artifacts.csv">>

\* a validator that looks for the first file only
missing_first_only(required, files) ==
  SelectSeq(SubSeq(required, 1, 1), LAMBDA name : name \notin files)

\* the names of REQUIRED that are not in data_canonical
missing(required, files) == SelectSeq(required, LAMBDA name : name \notin files)

\* main of validate_canonical.py: raise SystemExit(1) if a file is missing
ValidateCanonical ==
  /\ script = "validate_canonical"
  /\ pc = "start"
  /\ summary' = missing(REQUIRED, on_disk)
  /\ exit_status' = IF missing(REQUIRED, on_disk) # <<>> THEN 1 ELSE 0
  /\ passes' = passes + 1
  /\ pc' = "done"
  /\ UNCHANGED <<script, on_disk, data, records_read, db, maps, returned, normData, people,
                 person_mentions, people_jsonl, name_to_canonical, idx, pass_start, theoryData>>

\* between two runs of the validator the normalizers write canonical files,
\* or files are removed
CanonicalFilesChange ==
  /\ script = "validate_canonical"
  /\ pc = "done"
  /\ passes < MaxPasses
  /\ on_disk' \in SUBSET {REQUIRED[i] : i \in 1..Len(REQUIRED)}
  /\ pc' = "start"
  /\ UNCHANGED <<script, data, records_read, db, maps, returned, summary, exit_status, normData,
                 dedupeData>>

InitValidate ==
  /\ script = "validate_canonical"
  /\ pc = "start"
  /\ on_disk \in SUBSET {REQUIRED[i] : i \in 1..Len(REQUIRED)}
  /\ data = <<>>
  /\ db = <<>>
  /\ maps = <<>>
  /\ returned = <<>>
  /\ summary = <<>>
  /\ exit_status = 0
  /\ records_read = 0
  /\ existing = EmptyDict
  /\ csvFile = <<>>
  /\ supplier = EmptyDict
  /\ people = <<>>
  /\ person_mentions = <<>>
  /\ people_jsonl = <<>>
  /\ name_to_canonical = <<>>
  /\ idx = 1
  /\ passes = 0
  /\ pass_start = 0
  /\ theories = <<>>
  /\ theory_mentions = <<>>
  /\ theories_jsonl = <<>>

\* ------------------------------------------------- the command-line tools
InitCommands == InitIngest \/ InitPipeline \/ InitValidate

NextCommands ==
  \/ NextIngest \/ NextPipeline \/ ValidateCanonical \/ CanonicalFilesChange

SpecCommands == InitCommands /\ [][NextCommands]_vars

\* ------------------------------------------- a normalizer run again
\* Two runs of one normalizer over the same facts file: data.facts is the file,
\* idx the line main is at, passes the number of runs that wrote the CSV.  The
\* first run finds no canonical CSV, every later run the CSV of the run before.
MaxFacts == 2

Normalizers == {"normalize_artifacts", "normalize_locations_from_subtitles"}

FactsOf(s) == IF s = "normalize_artifacts" THEN ArtifactFacts ELSE LocationMentionFacts

load_existing(s, csv) ==
  IF s = "normalize_artifacts" THEN load_existing_artifacts(csv)
  ELSE load_existing_mentions(csv)

merge(s, ex, f) ==
  IF s = "normalize_artifacts" THEN merge_artifacts(ex, f)
  ELSE merge_location_mention(ex, f)

sorted_keys(s) == IF s = "normalize_artifacts" THEN ArtifactIds ELSE MentionKeys

NormalizerLoads ==
  /\ script \in Normalizers
  /\ pc = "start"
  /\ passes < MaxPasses
  /\ existing' = load_existing(script, csvFile)
  /\ idx' = 1
  /\ pc' = "merge"
  /\ UNCHANGED <<script, csvFile, supplier, people, person_mentions, people_jsonl,
                 name_to_canonical, passes, pass_start, theoryData, etlData>>

NormalizerMerges ==
  /\ script \in Normalizers
  /\ pc = "merge"
  /\ idx <= Len(data.facts)
  /\ existing' = merge(script, existing, data.facts[idx])
  /\ idx' = idx + 1
  /\ UNCHANGED <<script, pc, csvFile, supplier, people, person_mentions, people_jsonl,
                 name_to_canonical, passes, pass_start, theoryData, etlData>>

NormalizerWrites ==
  /\ script \in Normalizers
  /\ pc = "merge"
  /\ idx > Len(data.facts)
  /\ csvFile' = write_csv(sorted_keys(script), existing)
  /\ existing' = EmptyDict
  /\ passes' = passes + 1
  /\ pc' = "start"
  /\ UNCHANGED <<script, supplier, people, person_mentions, people_jsonl,
                 name_to_canonical, idx, pass_start, theoryData, etlData>>

InitRerun ==
  /\ script \in Normalizers
  /\ pc = "start"
  /\ existing = EmptyDict
  /\ csvFile = <<>>
  /\ supplier = EmptyDict
  /\ people = <<>>
  /\ person_mentions = <<>>
  /\ people_jsonl = <<>>
  /\ name_to_canonical = <<>>
  /\ idx = 1
  /\ passes = 0
  /\ pass_start = 0
  /\ theories = <<>>
  /\ theory_mentions = <<>>
  /\ theories_jsonl = <<>>
  /\ on_disk = {}
  /\ data \in {[facts |-> q] : q \in SeqsUpTo(FactsOf(script), MaxFacts)}
  /\ db = <<>>
  /\ maps = <<>>
  /\ returned = <<>>
  /\ summary = <<>>
  /\ exit_status = 0
  /\ records_read = 0

NextRerun == NormalizerLoads \/ NormalizerMerges \/ NormalizerWrites

SpecRerun == InitRerun /\ [][NextRerun]_vars

\* ------------------------------- pipeline/scheduler/run_nightly_pipeline.py
\* main.  maps is the memory of the process: the stage and the script the loops
\* are at, stage_ok and metrics (status and stages).  summary is what was run:
\* one entry per [RUN] line, with whether the script exited non-zero or
\* subprocess.run raised.  data holds the two health files once written.
STAGES ==
  << <<"fetchers", <<"pipeline/fetchers/fetch_tmdb.py",
                     "pipeline/fetchers/fetch_subtitles.py",
                     "pipeline/fetchers/fetch_frames.py",
                     "pipeline/fetchers/fetch_satellite.py",
                     "pipeline/fetchers/fetch_open_data.py",
                     "pipeline/fetchers/fetch_forums.py">> >>,
     <<"extractors", <<"pipeline/extractors/extract_episode_metadata.py",
                       "pipeline/extractors/extract_boreholes_from_subtitles.py",
                       "pipeline/extractors/extract_artifacts_from_subtitles.py",
                       "pipeline/extractors/extract_depths_from_ocr.py",
                       "pipeline/extractors/extract_locations_from_satellite.py">> >>,
     <<"normalizers", <<"pipeline/normalizers/normalize_episodes.py",
                        "pipeline/normalizers/normalize_locations.py",
                        "pipeline/normalizers/normalize_boreholes.py",
                        "pipeline/normalizers/normalize_artifacts.py",
                        "pipeline/normalizers/normalize_intervals.py">> >>,
     <<"validators", <<"pipeline/validators/validate_canonical.py">> >>,
     <<"builders", <<"pipeline/builders/build_json.py">> >> >>

\* subprocess.run: the script exits with 0, exits with another status, or the
\* call raises
ScriptOutcomes == {"exit 0", "exit 1", "exception"}

allow_fail_all(stage_name) == TRUE

allow_fail_none(stage_name) == FALSE

\* line 84
allow_fail(stage_name) == stage_name \in {"fetchers", "extractors"}

\* run_script: what it returns for an outcome
run_script(outcome, may_fail) == IF outcome # "exit 0" THEN may_fail ELSE TRUE

NewMetrics == [status |-> "ok", stages |-> EmptyDict]

\* lines 82-90: one turn of the loop over the scripts of the stage
RunScript ==
  /\ script = "run_nightly_pipeline"
  /\ pc = "run_script"
  /\ \E outcome \in ScriptOutcomes :
       LET stage_name == STAGES[maps.stage][1]
           scripts == STAGES[maps.stage][2]
           ok == run_script(outcome, allow_fail(stage_name))
           break == ~ok /\ ~allow_fail(stage_name)
       IN /\ summary' = Append(summary, [stage |-> stage_name,
                                          script |-> scripts[maps.script],
                                          failed |-> outcome # "exit 0"])
          /\ maps' = [maps EXCEPT
                        !.stage_ok = IF ok THEN @ ELSE FALSE,
                        !.metrics.status = IF break THEN "error" ELSE @,
                        !.script = @ + 1]
          /\ pc' = IF break \/ maps.script = Len(scripts) THEN "stage_done" ELSE "run_script"
  /\ UNCHANGED <<script, normData, dedupeData, on_disk, data, db, returned, exit_status, records_read>>

\* lines 92-98: the stage is recorded; a failed hard-fail stage ends the loop
FinishStage ==
  /\ script = "run_nightly_pipeline"
  /\ pc = "stage_done"
  /\ LET stage_name == STAGES[maps.stage][1]
         recorded == [maps EXCEPT
                        !.metrics.stages =
                           Put(@, stage_name, IF maps.stage_ok THEN "ok" ELSE "error")]
     IN IF (~maps.stage_ok /\ stage_name \notin {"fetchers", "extractors"})
           \/ maps.stage = Len(STAGES)
        THEN /\ maps' = recorded
             /\ pc' = "health"
        ELSE /\ maps' = [recorded EXCEPT !.stage = @ + 1, !.script = 1, !.stage_ok = TRUE]
             /\ pc' = "run_script"
  /\ UNCHANGED <<script, normData, dedupeData, on_disk, data, db, returned, summary, exit_status,
                 records_read>>

\* lines 100-112: the health files are written, then the process exits
WriteHealth ==
  /\ script = "run_nightly_pipeline"
  /\ pc = "health"
  /\ on_disk' = on_disk \cup {"last_run.json", "metrics.json"}
  /\ data' = [last_run |-> [status |-> maps.metrics.status], metrics |-> maps.metrics]
  /\ exit_status' = IF maps.metrics.status # "ok" THEN 1 ELSE 0
  /\ pc' = "done"
  /\ UNCHANGED <<script, normData, dedupeData, db, maps, returned, summary, records_read>>

InitNightly ==
  /\ script = "run_nightly_pipeline"
  /\ pc = "run_script"
  /\ existing = EmptyDict
  /\ csvFile = <<>>
  /\ supplier = EmptyDict
  /\ people = <<>>
  /\ person_mentions = <<>>
  /\ people_jsonl = <<>>
  /\ name_to_canonical = <<>>
  /\ idx = 1
  /\ passes = 0
  /\ pass_start = 0
  /\ theories = <<>>
  /\ theory_mentions = <<>>
  /\ theories_jsonl = <<>>
  /\ on_disk = {}
  /\ data = <<>>
  /\ db = <<>>
  /\ maps = [stage |-> 1, script |-> 1, stage_ok |-> TRUE, metrics |-> NewMetrics]
  /\ returned = <<>>
  /\ summary = <<>>
  /\ exit_status = 0
  /\ records_read = 0

NextNightly == RunScript \/ FinishStage \/ WriteHealth

SpecNightly == InitNightly /\ [][NextNightly]_vars

\* ------------------------------------------------------ specification
Init == InitArtifacts \/ InitMentions \/ InitLocations

Next ==
  \/ LoadArtifacts \/ MergeArtifact \/ ArtifactLineMalformed \/ WriteArtifacts
  \/ LoadMentions \/ MergeMention \/ WriteMentions
  \/ LoadLocations \/ MergeLocation \/ WriteLocations

Spec == Init /\ [][Next]_vars

\* ------------------------------------------------- claims on ingestion
EntityTables == {"episodes", "locations", "artifacts", "people"}

Keys(table) == {table[i].key : i \in 1..Len(table)}

\* C15: unless a run starts with --drop-existing, a step keeps every key of
\* every entity table, whatever the files of the run hold.
EntitiesAreNeverDeleted ==
  [][ \/ StartIngestWith(TRUE)
      \/ \A kind \in {"locations", "episodes", "boreholes"} :
           Keys(db[kind]) \subseteq Keys(db'[kind]) ]_vars

\* a second run over other files has replaced or added a location, and a
\* location that only the first run's file had is still there
EntitiesKeptWitness ==
  /\ script = "etl_ingest_semantic"
  /\ pc = "idle"
  /\ passes = 2
  /\ exit_status = 0
  /\ Len(data.locations) = 1
  /\ Len(db.locations) = 2
  /\ db.locations[2].key = data.locations[1].id

\* C16: when a line of artifacts.jsonl is unparsable, the artifacts of the
\* well-formed lines before it are still ingested: they are in the canonical
\* CSV once the run has ended.
MalformedLineIsSkipped ==
  (script = "normalize_artifacts" /\ pc = "crashed") =>
    DOMAIN existing \subseteq {csvFile[i].artifact_id.str : i \in 1..Len(csvFile)}

\* the file every ingest step of run_all opens
StepFile ==
  [ingest_episodes |-> "episodes.json", ingest_locations |-> "locations.json",
   ingest_artifacts |-> "artifacts_summary.json", ingest_measurements |-> "measurements.json",
   ingest_people |-> "people.json"]

\* C17: with the schema in place, the ingest step of a source file that is
\* missing finishes successfully.
MissingSourceIsNotAnError ==
  (script = "run_all" /\ SCHEMA_PATH \in on_disk) =>
    \A i \in 1..Len(summary) :
       (summary[i][1] \in DOMAIN StepFile /\ StepFile[summary[i][1]] \notin on_disk)
         => summary[i][2] = "success"

RunSummaryIsAlwaysEmitted ==
  (script = "etl_pipeline" /\ pc = "idle" /\ passes > 0) =>
    /\ summary # <<>>
    /\ summary[Len(summary)][1] = "statistics"

\* C20: in a run of etl_ingest_semantic no statement is executed after one the
\* store rejected, and a run with a rejected statement ends with a non-zero
\* status.
StoreRejectionIsFatal ==
  script = "etl_ingest_semantic" =>
    /\ \A a, b \in 1..Len(summary) :
         (a < b /\ summary[a][1] = "error") => summary[b][1] # "write"
    /\ (pc = "idle" /\ \E a \in 1..Len(summary) : summary[a][1] = "error")
         => exit_status # 0

\* C24: no step of a run with --dry-run, whatever the other options, changes
\* the database file, and none after the files of the run are fixed changes the
\* JSON files of the data directory.
DryRunWritesNothing ==
  [][(script = "etl_pipeline" /\ maps'.dry_run) =>
       /\ db' = db
       /\ (pc # "idle" => (data' = data /\ on_disk' = on_disk))]_vars

\* C25: no step of OakIslandETL.run changes a JSON input file the data
\* directory holds: the file is still there and its content is the same.
RunLeavesInputFiles ==
  [][(PipelineLoadLocations \/ PipelineLoadMeasurements \/ PipelineExportAndStatistics)
       => /\ on_disk \subseteq on_disk'
          /\ "locations.json" \in on_disk => data'.locations = data.locations
          /\ "measurements.json" \in on_disk => data'.measurements = data.measurements]_vars

\* C23: once a run of OakIslandETL without --reset has completed, no step of a
\* further run without --reset over the same data directory adds or removes a
\* row of a table, and its load of the measurements does not fail.
SecondRunChangesNothing ==
  [][(script = "etl_pipeline" /\ passes >= 1 /\ exit_status = 0) =>
       /\ db'.locations = db.locations
       /\ db'.measurements = db.measurements
       /\ PipelineLoadMeasurements => exit_status' = 0]_vars

\* ------------------------------------------ claims on the mention ledgers
\* C29: after any sequence of dedupe passes every row of person_mentions names
\* a person that has a row in people, and every row of theory_mentions names a
\* theory that has a row in theories.
LedgerRowsHaveAnEntity ==
  script = "etl_dedupe_semantic" =>
    /\ \A i \in 1..Len(person_mentions) : person_mentions[i].person_id \in DOMAIN people
    /\ \A i \in 1..Len(theory_mentions) : theory_mentions[i].theory_id \in DOMAIN theories

\* two passes have written rows to both ledgers, one of them for a person whose
\* id was derived from the name
LedgerRowsWitness ==
  /\ script = "etl_dedupe_semantic"
  /\ passes >= 2
  /\ pc = "start"
  /\ Len(theory_mentions) >= 2
  /\ \E i \in 1..Len(person_mentions) :
        \A k \in 1..Len(KNOWN_PEOPLE) : KNOWN_PEOPLE[k][2] # person_mentions[i].person_id

\* C30: the upsert of a person that already has a row changes the name and the
\* mention count only: the first and last appearance season the row holds
\* (written by an earlier pass or by update_statistics) stay as they were.
UpsertKeepsOtherColumns ==
  [][DedupePeopleUpsert =>
       \A c \in DOMAIN people :
          /\ people'[c].first_appearance_season = people[c].first_appearance_season
          /\ people'[c].last_appearance_season = people[c].last_appearance_season]_vars

\* the canonical ids of the names of people.jsonl
PassIds == {Resolved[strip(people_jsonl[i].person)] :
              i \in {j \in 1..Len(people_jsonl) : strip(people_jsonl[j].person) # <<>>}}

\* the people table and the person ledger one uninterrupted pass writes into an
\* empty database
OnePassPeople ==
  [c \in PassIds |->
     NewPerson(c, Cardinal({i \in 1..Len(people_jsonl) :
                              /\ strip(people_jsonl[i].person) # <<>>
                              /\ Resolved[strip(people_jsonl[i].person)] = c}))]

RECURSIVE OnePassLedger(_)
OnePassLedger(i) ==
  IF i > Len(people_jsonl) THEN <<>>
  ELSE LET mention == people_jsonl[i]
       IN (IF strip(mention.person) = <<>> \/ Raises(mention) THEN <<>>
           ELSE << [person_id |-> Resolved[strip(mention.person)],
                    season |-> PyInt(mention.season),
                    episode |-> PyInt(mention.episode),
                    confidence |-> PyFloat(mention.confidence),
                    mention_type |-> "speaker"] >>)
          \o OnePassLedger(i + 1)

\* C21: a pass that was cut off after one of its commits and is then run again
\* in full over the same inputs leaves the store (entity tables and mention
\* ledgers) that one uninterrupted pass leaves.
InterruptedPassResumes ==
  [][(DedupeTheories /\ passes = 0) =>
       /\ people' = OnePassPeople
       /\ person_mentions' = OnePassLedger(1)
       /\ theory_mentions' = insert_theory_mentions(<<>>, theories_jsonl, 1)]_vars

\* ------------------------------------------ claims on a normalizer run again
\* C22: a normalizer run again over the same facts, starting from the canonical
\* table its run before wrote, writes the table it found: the same rows with the
\* same values in the same order.
RerunIsDriftFree ==
  [][(NormalizerWrites /\ passes >= 1) => csvFile' = csvFile]_vars

\* the second run has written a table whose row merged two facts with two
\* different references
RerunWitness ==
  /\ script \in Normalizers
  /\ passes >= 2
  /\ Len(data.facts) = 2
  /\ \E i \in 1..Len(csvFile) : Len(csvFile[i].source_refs.parts) = 2

\* ------------------------------------------ claims on the nightly pipeline
HardFailStages == {"normalizers", "validators", "builders"}

Scripts == UNION {SeqToSet(STAGES[i][2]) : i \in 1..Len(STAGES)}

HardFailure(i) == summary[i].failed /\ summary[i].stage \in HardFailStages

\* C26: a failing script of a hard-fail stage is the last script the pipeline
\* runs, the status is "error" from then on and the process exits with 1.
HardFailureStopsThePipeline ==
  script = "run_nightly_pipeline" =>
    \A i \in 1..Len(summary) :
       HardFailure(i) =>
         /\ i = Len(summary)
         /\ pc # "run_script"
         /\ maps.metrics.status = "error"
         /\ pc = "done" => (exit_status = 1 /\ data.last_run.status = "error")

\* the second normalizer failed after failures among the fetchers and the
\* extractors: the run has ended without its last six scripts
HardFailureWitness ==
  /\ script = "run_nightly_pipeline"
  /\ pc = "done"
  /\ Len(summary) = 13
  /\ summary[13].failed
  /\ summary[1].failed
  /\ summary[7].failed

\* C27: a failing fetcher or extractor stops nothing, and a run in which no
\* script of a hard-fail stage failed runs every script, reports "ok" and
\* exits with 0.
SoftFailureNeverStops ==
  script = "run_nightly_pipeline" =>
    /\ \A i \in 1..Len(summary) :
         (summary[i].failed /\ summary[i].stage \notin HardFailStages) =>
           (maps.metrics.status = "ok" \/ \E j \in (i + 1)..Len(summary) : HardFailure(j))
    /\ (pc = "done" /\ \A i \in 1..Len(summary) : ~HardFailure(i)) =>
         /\ {summary[i].script : i \in 1..Len(summary)} = Scripts
         /\ maps.metrics.status = "ok"
         /\ data.last_run.status = "ok"
         /\ exit_status = 0

\* every fetcher and every extractor failed and the run ended with "ok"
SoftFailureWitness ==
  /\ script = "run_nightly_pipeline"
  /\ pc = "done"
  /\ exit_status = 0
  /\ \A i \in 1..11 : summary[i].failed
  /\ Len(summary) = 18

\* C28: the status recorded for a stage is "error" exactly when a script of the
\* stage exited non-zero or raised.
StageStatusReflectsItsScripts ==
  script = "run_nightly_pipeline" =>
    \A st \in DOMAIN maps.metrics.stages :
       maps.metrics.stages[st] = "error" <=>
         \E i \in 1..Len(summary) : summary[i].stage = st /\ summary[i].failed

\* ----------------------------------------------- claims on the resolver
KnownKeys == {KNOWN_PEOPLE[i][1] : i \in 1..Len(KNOWN_PEOPLE)}

KnownCanon == [k \in KnownKeys |-> KNOWN_PEOPLE[CHOOSE i \in 1..Len(KNOWN_PEOPLE) : KNOWN_PEOPLE[i][1] = k][2]]

Reverse(q) == [i \in 1..Len(q) |-> q[Len(q) + 1 - i]]

ResolvedReversed == [n \in StrippedNames |-> fuzzy_match_person(n, Reverse(KNOWN_PEOPLE))]

\* names resolved by derivation: no exact alias, no known name above the threshold
Derived ==
  {n \in StrippedNames :
     /\ n \notin KnownKeys
     /\ \A i \in 1..Len(KNOWN_PEOPLE) :
          ~Greater(string_similarity(n, KNOWN_PEOPLE[i][1]), PERSON_MATCH_THRESHOLD)}

Similar ==
  {p \in StrippedNames \X StrippedNames :
     Greater(string_similarity(p[1], p[2]), PERSON_MATCH_THRESHOLD)}

\* the canonical ids of the known names that share the best score above the threshold
TiedCandidates ==
  [n \in StrippedNames |->
     LET score == [i \in 1..Len(KNOWN_PEOPLE) |-> string_similarity(n, KNOWN_PEOPLE[i][1])]
     IN {KNOWN_PEOPLE[i][2] : i \in
           {i \in 1..Len(KNOWN_PEOPLE) :
              /\ Greater(score[i], PERSON_MATCH_THRESHOLD)
              /\ \A j \in 1..Len(KNOWN_PEOPLE) : ~Greater(score[j], score[i])}}]

NameAt(i) == strip(people_jsonl[i].person)

\* ledger rows an entity had before the running pass
MentionsBefore(c) == Cardinal({i \in 1..pass_start : person_mentions[i].person_id = c})

\* rows the last pass appended
Appended == SubSeq(person_mentions, pass_start + 1, Len(person_mentions))

WellFormed(mention) == strip(mention.person) # <<>> /\ ~Raises(mention)

RickAliases == {<<"R", "i", "c", "k">>, <<"R", "i", "c", "k", " ", "L", "a", "g", "i", "n", "a">>}

\* C7: a name that, trimmed, is a key of KNOWN_PEOPLE resolves to the id the
\* table gives for it.
ExactAliasIsAuthoritative ==
  (script = "etl_dedupe_semantic" /\ pc = "mentions") =>
    \A i \in 1..Len(people_jsonl) :
       NameAt(i) \in KnownKeys => name_to_canonical[NameAt(i)] = KnownCanon[NameAt(i)]

\* a pass has resolved " Rick ", written with surrounding blanks, and "Matty"
ExactAliasWitness ==
  /\ script = "etl_dedupe_semantic"
  /\ pc = "mentions"
  /\ \E i \in 1..Len(people_jsonl) : people_jsonl[i].person = <<" ", "R", "i", "c", "k", " ">>
  /\ \E i \in 1..Len(people_jsonl) : people_jsonl[i].person = <<"M", "a", "t", "t", "y">>
  /\ name_to_canonical[<<"R", "i", "c", "k">>]
       = <<"r", "i", "c", "k", "_", "l", "a", "g", "i", "n", "a">>

\* C8: a name resolved by derivation is known from then on: a later name of the
\* same pass without exact alias and more than 0.85 similar to it gets its key.
DerivedKeyIsRegistered ==
  (script = "etl_dedupe_semantic" /\ pc = "mentions") =>
    \A i, j \in 1..Len(people_jsonl) :
       (/\ i < j
        /\ NameAt(i) \in Derived
        /\ NameAt(j) # <<>>
        /\ NameAt(j) \notin KnownKeys
        /\ <<NameAt(j), NameAt(i)>> \in Similar)
       => name_to_canonical[NameAt(j)] = name_to_canonical[NameAt(i)]

\* C9: of two known entities that share the best score above the threshold the
\* one with more ledger rows is returned, whatever the order of KNOWN_PEOPLE.
TieBreakPrefersMoreMentions ==
  (script = "etl_dedupe_semantic" /\ pc = "mentions") =>
    \A i \in 1..Len(people_jsonl) :
       (NameAt(i) # <<>> /\ NameAt(i) \notin KnownKeys) =>
          /\ \A c1, c2 \in TiedCandidates[NameAt(i)] :
                MentionsBefore(c1) > MentionsBefore(c2) => name_to_canonical[NameAt(i)] # c2
          /\ name_to_canonical[NameAt(i)] = ResolvedReversed[NameAt(i)]

RickLagina == <<"r", "i", "c", "k", "_", "l", "a", "g", "i", "n", "a">>

\* well-formed facts of people.jsonl that resolve to the canonical id c
FactsResolvingTo(c) ==
  Cardinal({i \in 1..Len(people_jsonl) :
              WellFormed(people_jsonl[i]) /\ Resolved[NameAt(i)] = c})

LedgerIds == {person_mentions[i].person_id : i \in 1..Len(person_mentions)}

\* C11: after any number of completed passes over the same fact files an entity
\* has as many ledger rows as there are facts that resolve to it.
LedgerCompleteAcrossPasses ==
  (script = "etl_dedupe_semantic" /\ pc = "start" /\ passes > 0) =>
    \A c \in LedgerIds \cup DOMAIN people :
       CountRows(person_mentions, "person_id", c) = FactsResolvingTo(c)

\* C12: between the phases every person's stored mention_count is the number of
\* person_mentions rows that carry the person's id.
MentionCountMatchesLedger ==
  (script = "etl_dedupe_semantic" /\ pc = "start") =>
    \A c \in DOMAIN people :
       people[c].mention_count = CountRows(person_mentions, "person_id", c)

\* stores that share the ledgers of this one and differ in the stored statistics
PriorPeopleStatistics ==
  {[c \in DOMAIN people |->
      [people[c] EXCEPT !.mention_count = m,
                        !.first_appearance_season = f,
                        !.last_appearance_season = f]] :
     m \in {0, 7}, f \in {None, Num(9)}}

PriorTheoriesStatistics ==
  {[t \in DOMAIN theories |->
      [theories[t] EXCEPT !.evidence_count = m,
                          !.first_mentioned_season = f,
                          !.last_mentioned_season = f]] :
     m \in {0, 7}, f \in {None, Num(9)}}

ConfidenceField == IF script = "normalize_artifacts" THEN "confidence_level" ELSE "confidence"

StoredConfidence(row) == PyFloat(Or(row[ConfidenceField], Num(0)))

FactConfidence(f) == PyFloat(Or(Get(f, "confidence", Num(0)), Num(0)))

RefSet(row) == SeqToSet(row.source_refs.parts)

LowerOrEqualConfidenceKeepsValue ==
  script = "normalize_artifacts" =>
    \A f \in ArtifactFacts :
       LET aid == f.artifact_id
       IN (/\ aid \in DOMAIN existing
           /\ existing[aid].name # Str("")
           /\ "name" \in DOMAIN f.attributes
           /\ FactConfidence(f) <= StoredConfidence(existing[aid]))
          => merge_artifacts(existing, f)[aid].name = existing[aid].name

\* C3: two facts about a new entity with different confidences leave the value of
\* the more confident one, whichever is merged first.
OrderIndependentWhenConfidencesDiffer ==
  (script = "normalize_artifacts" /\ pc = "merge") =>
    \A f1, f2 \in ArtifactFacts :
       LET aid == f1.artifact_id
       IN (/\ f2.artifact_id = aid
           /\ aid \notin DOMAIN existing
           /\ "name" \in DOMAIN f1.attributes
           /\ "name" \in DOMAIN f2.attributes
           /\ FactConfidence(f1) < FactConfidence(f2))
          => /\ merge_artifacts(merge_artifacts(existing, f1), f2)[aid].name = f2.attributes.name
             /\ merge_artifacts(merge_artifacts(existing, f2), f1)[aid].name = f2.attributes.name

\* C4: the confidence stored with an entity is the confidence of the fact that
\* supplied the value the entity currently holds.
StoredConfidenceIsSuppliers ==
  script \in {"normalize_artifacts", "normalize_locations_from_subtitles"} =>
    \A k \in DOMAIN existing \cap DOMAIN supplier :
       StoredConfidence(existing[k]) = supplier[k]

\* C5: merging a fact never removes a provenance reference from an entity.
SourceRefsOnlyAccumulate ==
  /\ script = "normalize_artifacts" =>
       \A f \in ArtifactFacts : \A k \in DOMAIN existing :
          RefSet(existing[k]) \subseteq RefSet(merge_artifacts(existing, f)[k])
  /\ script = "normalize_locations_from_subtitles" =>
       \A f \in LocationMentionFacts : \A k \in DOMAIN existing :
          RefSet(existing[k]) \subseteq RefSet(merge_location_mention(existing, f)[k])
  /\ script = "normalize_locations" =>
       \A f \in LocationFacts : \A k \in DOMAIN existing :
          RefSet(existing[k]) \subseteq RefSet(merge_location(existing, f)[k])

\* C6: merging a fact into a location leaves related_seasons the union of the
\* seasons held before and the fact's seasons.
RelatedSeasonsIsUnion ==
  script = "normalize_locations" =>
    \A f \in LocationFacts :
       LET id == f.location_id
           before == IF id \in DOMAIN existing
                     THEN SeqToSet(existing[id].related_seasons.parts) ELSE {}
           given == IF "related_seasons" \in DOMAIN f /\ f.related_seasons # None
                    THEN {PyStr(f.related_seasons.list[i]).str :
                            i \in 1..Len(f.related_seasons.list)}
                    ELSE {}
       IN SeqToSet(merge_location(existing, f)[id].related_seasons.parts) = before \cup given

====
